---------------------------- MODULE Spec2Model ----------------------------
(***************************************************************************)
(* Model of the refresh orchestrator and cache lock of the transit server: *)
(* NVTModels::initialize_cache, refresh_dynamic_data, refresh_static_data  *)
(* and smart_refresh (src/src/tbm_api_models.rs), and the handlers and the *)
(* background task that call them under the cache Mutex (src/src/main.rs). *)
(*                                                                         *)
(* A payload fetched from an operator is a version number (0 is the empty  *)
(* data set the code substitutes at startup); a real-time list is a        *)
(* sequence of entries tagged with the feed they came from.  The results   *)
(* of the network fetches are the inputs: each is chosen when the fetch    *)
(* returns, from the set the specification passes to the action.           *)
(*                                                                         *)
(* The module also models the cache files of GTFSCache (is_expired, save,  *)
(* load), and the two functions that compute what a read returns:          *)
(* build_stops and get_scheduled_arrivals.  Each of these is studied under *)
(* a specification of its own, which draws the arguments of one call from  *)
(* a bounded set and applies the function to them.                         *)
(***************************************************************************)
EXTENDS Integers, Sequences, FiniteSets, TLC

VARIABLES
    phase,        \* "starting" | "initializing" | "serving" | "exited"  (main)
    boot,         \* what the fetches of initialize_cache returned
    now,          \* SystemTime::now() in seconds
    cache,        \* the CachedNetworkData behind the Mutex
    lock,         \* holder of the Mutex<CachedNetworkData>, or NoOne
    pc,           \* position of every handler / task
    fetched,      \* per task: what the fetches of the function it runs returned
    result,       \* per task: value its last smart_refresh returned (as logged)
    poisoned,     \* the Mutex is poisoned: a holder panicked with the guard
    disk,         \* per cache path: the file <cache-dir>/tbm_nvt/<source>_gtfs_cache.json
    loaded,       \* what the last GTFSCache::load returned, and for which call
    args,         \* arguments of the last call of build_stops / get_scheduled_arrivals
    ret           \* what that call returned

vars == <<phase, boot, now, cache, lock, pc, fetched, result, poisoned, disk, loaded,
          args, ret>>

---------------------------------------------------------------------------
(* Bounds and program constants *)

STATIC_DATA_MAX_AGE == 3600

\* the last instant of the clock
MaxTime == 3601

\* a feed under study publishes versions 1..MaxVersion of its data
MaxVersion == 2

\* the real-time lists are not allowed to grow beyond MaxLen entries
MaxLen == 2

NoOne == "nobody"

Refreshers == {"timer", "manual"}
Readers == {"reader1", "reader2"}
Procs == Refreshers \cup Readers

---------------------------------------------------------------------------
(* Fetch results: Result<T> of a fetch_* / load_* call *)

Ok(v) == [st |-> "ok", v |-> v]
Err(z) == [st |-> "err", v |-> z]
Skipped(z) == [st |-> "skipped", v |-> z]

IsOk(r) == r.st = "ok"
IsErr(r) == r.st = "err"

\* one entry of a real-time list, tagged with its feed
Entry(feed, ver) == [feed |-> feed, ver |-> ver]

\* the lists a real-time feed may return: one entry of some version
FeedLists(feed, versions) == { <<Entry(feed, n)>> : n \in versions }

ListResults(feed, versions) == { Ok(l) : l \in FeedLists(feed, versions) } \cup { Err(<<>>) }
DataResults(versions) == { Ok(n) : n \in versions } \cup { Err(0) }

\* what the five real-time fetches of refresh_dynamic_data may return; V gives
\* the versions each feed may serve
DynOutcomes(V) ==
    [ alerts : ListResults("tbm_alerts", V.alerts),
      vehicles : ListResults("tbm_vehicles", V.vehicles),
      trips : ListResults("tbm_trips", V.trips),
      sncf_alerts : ListResults("sncf_alerts", V.sncf_alerts),
      sncf_trips : ListResults("sncf_trips", V.sncf_trips) ]

NoDyn == [ alerts |-> Skipped(<<>>), vehicles |-> Skipped(<<>>), trips |-> Skipped(<<>>),
           sncf_alerts |-> Skipped(<<>>), sncf_trips |-> Skipped(<<>>) ]

\* what the five static loads may return, in call order; a `?` that returns
\* early leaves the later loads uncalled
StaticOutcomes(V) ==
    { [ stops |-> Err(0), lines |-> Skipped(0), tbm_gtfs |-> Skipped(0),
        regional |-> Skipped(0), sncf |-> Skipped(0) ] }
    \cup { [ stops |-> Ok(s), lines |-> Err(0), tbm_gtfs |-> Skipped(0),
             regional |-> Skipped(0), sncf |-> Skipped(0) ] : s \in V.stops }
    \cup [ stops : { Ok(n) : n \in V.stops }, lines : { Ok(n) : n \in V.lines },
           tbm_gtfs : DataResults(V.tbm_gtfs), regional : DataResults(V.regional),
           sncf : DataResults(V.sncf) ]

NoStatic == [ stops |-> Skipped(0), lines |-> Skipped(0), tbm_gtfs |-> Skipped(0),
              regional |-> Skipped(0), sncf |-> Skipped(0) ]

\* what the fetches of initialize_cache may return: the static loads, then the
\* three urban real-time feeds (the national-rail feeds are not fetched at
\* startup); nothing is fetched after a `?` has returned
InitDynOutcomes(DO) ==
    { [ o EXCEPT !.sncf_alerts = Skipped(<<>>), !.sncf_trips = Skipped(<<>>) ] : o \in DO }

InitOutcomes(SO, DO) ==
    { [ sta |-> s, dyn |-> d ] : s \in { x \in SO : IsOk(x.lines) }, d \in InitDynOutcomes(DO) }
    \cup { [ sta |-> s, dyn |-> NoDyn ] : s \in { x \in SO : ~IsOk(x.lines) } }

NoBoot == [ sta |-> NoStatic, dyn |-> NoDyn ]
NoFetch == [ dyn |-> NoDyn, sta |-> NoStatic ]

---------------------------------------------------------------------------
(* CachedNetworkData *)

NoCache ==
    [ tbm_stops_metadata |-> 0, tbm_lines_metadata |-> 0, tbm_gtfs_cache |-> 0,
      transgironde_stops |-> 0, transgironde_lines |-> 0, transgironde_gtfs_cache |-> 0,
      sncf_stops |-> 0, sncf_lines |-> 0, sncf_gtfs_cache |-> 0,
      last_static_update |-> 0,
      alerts |-> <<>>, real_time |-> <<>>, trip_updates |-> <<>>,
      last_dynamic_update |-> 0 ]

\* Result::unwrap_or / unwrap_or_else
UnwrapOr(r, default) == IF IsOk(r) THEN r.v ELSE default

(* CachedNetworkData::needs_static_refresh; saturating_sub on u64 *)
SatSub(a, b) == IF a >= b THEN a - b ELSE 0

needs_static_refresh_at_max_age(c, max_age_seconds, t) ==
    SatSub(t, c.last_static_update) >= max_age_seconds

needs_static_refresh(c, max_age_seconds, t) ==
    SatSub(t, c.last_static_update) > max_age_seconds

initialize_cache_fails_on_archive(o) ==
    IsErr(o.sta.stops) \/ IsErr(o.sta.lines) \/ IsErr(o.sta.tbm_gtfs)

(* NVTModels::initialize_cache: whether it returns Err (main then exits) *)
initialize_cache_fails(o) == IsErr(o.sta.stops) \/ IsErr(o.sta.lines)

(* NVTModels::initialize_cache: the cache it returns when it succeeds *)
initialize_cache(o, t) ==
    [ tbm_stops_metadata |-> o.sta.stops.v,
      tbm_lines_metadata |-> o.sta.lines.v,
      tbm_gtfs_cache |-> UnwrapOr(o.sta.tbm_gtfs, 0),
      transgironde_stops |-> UnwrapOr(o.sta.regional, 0),
      transgironde_lines |-> UnwrapOr(o.sta.regional, 0),
      transgironde_gtfs_cache |-> UnwrapOr(o.sta.regional, 0),
      sncf_stops |-> UnwrapOr(o.sta.sncf, 0),
      sncf_lines |-> UnwrapOr(o.sta.sncf, 0),
      sncf_gtfs_cache |-> UnwrapOr(o.sta.sncf, 0),
      last_static_update |-> t,
      alerts |-> UnwrapOr(o.dyn.alerts, <<>>),
      real_time |-> UnwrapOr(o.dyn.vehicles, <<>>),
      trip_updates |-> UnwrapOr(o.dyn.trips, <<>>),
      last_dynamic_update |-> t ]

refresh_dynamic_data_rail_first(c, o, t) ==
    [ c EXCEPT
        !.alerts = UnwrapOr(o.sncf_alerts, <<>>) \o UnwrapOr(o.alerts, c.alerts),
        !.real_time = UnwrapOr(o.vehicles, c.real_time),
        !.trip_updates = UnwrapOr(o.sncf_trips, <<>>) \o UnwrapOr(o.trips, c.trip_updates),
        !.last_dynamic_update = t ]

(* NVTModels::refresh_dynamic_data: the cache after the call (it always
   returns Ok) *)
refresh_dynamic_data(c, o, t) ==
    [ c EXCEPT
        !.alerts = UnwrapOr(o.alerts, c.alerts) \o UnwrapOr(o.sncf_alerts, <<>>),
        !.real_time = UnwrapOr(o.vehicles, c.real_time),
        !.trip_updates = UnwrapOr(o.trips, c.trip_updates) \o UnwrapOr(o.sncf_trips, <<>>),
        !.last_dynamic_update = t ]

(* NVTModels::refresh_static_data: the value it returns *)
refresh_static_result(o) ==
    IF IsErr(o.stops) \/ IsErr(o.lines) THEN "Err" ELSE "Ok"

refresh_static_data_stamps_first(c, o, t) ==
    IF IsErr(o.stops) THEN [ c EXCEPT !.last_static_update = t ]
    ELSE IF IsErr(o.lines)
      THEN [ c EXCEPT !.tbm_stops_metadata = o.stops.v, !.last_static_update = t ]
    ELSE [ c EXCEPT
            !.tbm_stops_metadata = o.stops.v,
            !.tbm_lines_metadata = o.lines.v,
            !.tbm_gtfs_cache = UnwrapOr(o.tbm_gtfs, c.tbm_gtfs_cache),
            !.transgironde_stops = UnwrapOr(o.regional, c.transgironde_stops),
            !.transgironde_lines = UnwrapOr(o.regional, c.transgironde_lines),
            !.transgironde_gtfs_cache = UnwrapOr(o.regional, c.transgironde_gtfs_cache),
            !.sncf_stops = UnwrapOr(o.sncf, c.sncf_stops),
            !.sncf_lines = UnwrapOr(o.sncf, c.sncf_lines),
            !.sncf_gtfs_cache = UnwrapOr(o.sncf, c.sncf_gtfs_cache),
            !.last_static_update = t ]

refresh_static_data_default_on_failure(c, o, t) ==
    IF IsErr(o.stops) THEN c
    ELSE IF IsErr(o.lines) THEN [ c EXCEPT !.tbm_stops_metadata = o.stops.v ]
    ELSE [ c EXCEPT
            !.tbm_stops_metadata = o.stops.v,
            !.tbm_lines_metadata = o.lines.v,
            !.tbm_gtfs_cache = UnwrapOr(o.tbm_gtfs, c.tbm_gtfs_cache),
            !.transgironde_stops = UnwrapOr(o.regional, 0),
            !.transgironde_lines = UnwrapOr(o.regional, 0),
            !.transgironde_gtfs_cache = UnwrapOr(o.regional, 0),
            !.sncf_stops = UnwrapOr(o.sncf, 0),
            !.sncf_lines = UnwrapOr(o.sncf, 0),
            !.sncf_gtfs_cache = UnwrapOr(o.sncf, 0),
            !.last_static_update = t ]

(* NVTModels::refresh_static_data: the cache after the call *)
refresh_static_data(c, o, t) ==
    IF IsErr(o.stops) THEN c
    ELSE IF IsErr(o.lines) THEN [ c EXCEPT !.tbm_stops_metadata = o.stops.v ]
    ELSE [ c EXCEPT
            !.tbm_stops_metadata = o.stops.v,
            !.tbm_lines_metadata = o.lines.v,
            !.tbm_gtfs_cache = UnwrapOr(o.tbm_gtfs, c.tbm_gtfs_cache),
            !.transgironde_stops = UnwrapOr(o.regional, c.transgironde_stops),
            !.transgironde_lines = UnwrapOr(o.regional, c.transgironde_lines),
            !.transgironde_gtfs_cache = UnwrapOr(o.regional, c.transgironde_gtfs_cache),
            !.sncf_stops = UnwrapOr(o.sncf, c.sncf_stops),
            !.sncf_lines = UnwrapOr(o.sncf, c.sncf_lines),
            !.sncf_gtfs_cache = UnwrapOr(o.sncf, c.sncf_gtfs_cache),
            !.last_static_update = t ]

MutexFree_unguarded == TRUE

\* Mutex::lock succeeds only while nobody holds the guard
MutexFree == lock = NoOne

---------------------------------------------------------------------------
(* GTFSCache: expiry and persistence on disk *)

SECONDS_PER_DAY == 86400

\* the sources that keep a cache file, and the max age each is loaded with
Sources == {"TBM", "NewAquitaine", "SNCF"}
TBM_MAX_AGE_DAYS == 15
REGIONAL_MAX_AGE_DAYS == 30

MaxAgeDays_urban_everywhere(source) == TBM_MAX_AGE_DAYS

\* GTFSCache::load("TBM", 15), load("NewAquitaine", 30), load("SNCF", 30)
MaxAgeDays(source) ==
    IF source = "TBM" THEN TBM_MAX_AGE_DAYS ELSE REGIONAL_MAX_AGE_DAYS

\* the clock is observed up to Slack seconds before each max age, and at it
Slack == 1

\* a GTFSCache value: its tables are a version number, except the f64
\* coordinates of stops and shapes, which are what str::parse::<f64> returned
\* for the text of the archive ("NaN" parses to a NaN)
Coordinates == {"44.84", "NaN"}
GTFSCache(source, cached_at, routes, stops) ==
    [ source |-> source, cached_at |-> cached_at, routes |-> routes, stops |-> stops ]
NoGTFSCache == GTFSCache("", 0, 0, "")

Some(c) == [ some |-> TRUE, v |-> c ]
None == [ some |-> FALSE, v |-> NoGTFSCache ]

is_expired_after_max_age(c, max_age_days, t) ==
    SatSub(t, c.cached_at) \div SECONDS_PER_DAY > max_age_days

\* (now.saturating_sub(self.cached_at)) / 86400 >= max_age_days
is_expired(c, max_age_days, t) ==
    SatSub(t, c.cached_at) \div SECONDS_PER_DAY >= max_age_days

to_lowercase(source) ==
    CASE source = "TBM" -> "tbm"
      [] source = "NewAquitaine" -> "newaquitaine"
      [] source = "SNCF" -> "sncf"

\* <cache-dir>/tbm_nvt/<source.to_lowercase()>_gtfs_cache.json
cache_path(source) == to_lowercase(source)
CachePaths == { cache_path(s) : s \in Sources }

\* serde_json::to_string_pretty: a JSON document; a number that is not
\* finite is written as null
to_string_pretty(c) ==
    [ syntax |-> "json", source |-> c.source, cached_at |-> c.cached_at,
      routes |-> c.routes,
      stops |-> IF c.stops \in {"NaN", "inf", "-inf"} THEN "null" ELSE c.stops ]

\* text that is not a JSON document of a GTFSCache
Garbage ==
    [ syntax |-> "broken", source |-> "", cached_at |-> 0, routes |-> 0, stops |-> "" ]

\* serde_json::from_str::<GTFSCache>: fails on broken text and on null where
\* an f64 is expected
from_str(text) ==
    IF text.syntax # "json" \/ text.stops = "null"
      THEN None
      ELSE Some(GTFSCache(text.source, text.cached_at, text.routes, text.stops))

\* a cache file
NoFile == [ kind |-> "absent", text |-> Garbage ]
Unreadable == [ kind |-> "unreadable", text |-> Garbage ]
TextFile(text) == [ kind |-> "text", text |-> text ]

\* GTFSCache::save, when fs::write succeeds
save(c, d) ==
    [ d EXCEPT ![cache_path(c.source)] = TextFile(to_string_pretty(c)) ]

\* GTFSCache::load
load(source, max_age_days, t, d) ==
    LET f == d[cache_path(source)]
    IN  IF f.kind = "absent" THEN None
        ELSE IF f.kind = "unreadable" THEN None
        ELSE LET parsed == from_str(f.text)
             IN  IF ~parsed.some THEN None
                 ELSE IF is_expired(parsed.v, max_age_days, t) THEN None
                 ELSE parsed

NoLoad == [ source |-> "", res |-> None ]

---------------------------------------------------------------------------
(* NVTModels::build_stops: real-time entries attached to the stops *)

\* let grace_period = 120
grace_period == 120
MAX_ARRIVALS_PER_STOP == 10

\* the largest value of the timestamp type (i64::MAX), on the scale of the
\* integers of the model
I64_MAX == 2147483647

\* no call of a function under study has been made
NoCall == [ fn |-> "none" ]

\* an identifier is the sequence of its segments between ':' characters:
\* "TBM:BP:3001:LOC" is <<"TBM", "BP", "3001", "LOC">>, "3001" is <<"3001">>
\* Option<String>, Option<i64>
SomeId(id) == [ some |-> TRUE, v |-> id ]
NoId == [ some |-> FALSE, v |-> <<>> ]
SomeTime(n) == [ some |-> TRUE, v |-> n ]
NoTime == [ some |-> FALSE, v |-> 0 ]

\* the segment ends with "BP", so that the identifier contains "BP:" when
\* another segment follows it; the text of the segment before that "BP"
EndsWithBP(segment) == segment \in {"BP", "12BP"}
BeforeBP(segment) == IF segment = "12BP" THEN "12" ELSE ""

\* extract_stop_id: the text between the first "BP:" and the next ':', else
\* the last but one segment, else the identifier itself
extract_stop_id(full_id) ==
    LET bp == { i \in 1..(Len(full_id) - 1) : EndsWithBP(full_id[i]) }
    IN  IF bp # {}
          THEN LET i == CHOOSE j \in bp : \A k \in bp : j <= k
               IN  IF EndsWithBP(full_id[i + 1]) /\ i + 1 < Len(full_id)
                     THEN SomeId(<<BeforeBP(full_id[i + 1])>>)
                     ELSE SomeId(<<full_id[i + 1]>>)
          ELSE IF Len(full_id) >= 2
                 THEN SomeId(<<full_id[Len(full_id) - 1]>>)
                 ELSE SomeId(full_id)

\* RealTimeInfo, with the fields the matching reads or sets
RealTimeInfo(vehicle_id, trip_id, stop_id, timestamp) ==
    [ vehicle_id |-> vehicle_id, trip_id |-> trip_id, stop_id |-> stop_id,
      timestamp |-> timestamp ]

\* one stop_time_update of a gtfs_rt::TripUpdate, with the trip it belongs to;
\* time is arrival.time, or else departure.time
StopTimeUpdate(trip_id, stop_id, time) ==
    [ trip_id |-> trip_id, stop_id |-> stop_id, time |-> time ]

\* for trip_update in &trip_updates { for stu in &trip_update.stop_time_update
RECURSIVE stop_time_updates(_)
stop_time_updates(trip_updates) ==
    IF trip_updates = <<>> THEN <<>>
    ELSE Head(trip_updates) \o stop_time_updates(Tail(trip_updates))

\* the first loop of build_stops keeps a stop_time_update that names a stop
\* and carries a time not before the cutoff
IsFreshUpdate(stu, cutoff_time) ==
    stu.stop_id.some /\ stu.time.some /\ stu.time.v >= cutoff_time

\* trip_updates_by_stop.get(&id): the kept updates pushed under their raw stop
\* id, and under the extracted id when it differs from the raw one
trip_updates_by_stop(trip_updates, cutoff_time, id) ==
    LET PushedUnder(stu) ==
          /\ IsFreshUpdate(stu, cutoff_time)
          /\ \/ stu.stop_id.v = id
             \/ /\ extract_stop_id(stu.stop_id.v).v = id
                /\ extract_stop_id(stu.stop_id.v).v # stu.stop_id.v
    IN  SelectSeq(stop_time_updates(trip_updates), PushedUnder)

\* stop_rt.push(RealTimeInfo { vehicle_id: "scheduled", .. }) for each of them
RECURSIVE scheduled_entries(_, _)
scheduled_entries(updates, id) ==
    IF updates = <<>> THEN <<>>
    ELSE <<RealTimeInfo("scheduled", Head(updates).trip_id, SomeId(id), Head(updates).time)>>
           \o scheduled_entries(Tail(updates), id)

\* rt.timestamp.unwrap_or(i64::MAX)
sort_key(rt) == IF rt.timestamp.some THEN rt.timestamp.v ELSE I64_MAX

\* sort_by_key is a stable sort: an entry goes after the entries already
\* placed whose key is not larger
RECURSIVE sort_by_key(_)
sort_by_key(list) ==
    IF list = <<>> THEN <<>>
    ELSE LET front == sort_by_key(SubSeq(list, 1, Len(list) - 1))
             e == list[Len(list)]
             n == Cardinality({ i \in 1..Len(front) : sort_key(front[i]) <= sort_key(e) })
         IN  SubSeq(front, 1, n) \o <<e>> \o SubSeq(front, n + 1, Len(front))

truncate(list, len) == IF Len(list) > len THEN SubSeq(list, 1, len) ELSE list

IsRetained_whatever_its_age(rt, cutoff_time) == TRUE

\* stop_rt.retain(..)
IsRetained(rt, cutoff_time) ==
    IF rt.timestamp.some THEN rt.timestamp.v >= cutoff_time ELSE TRUE

\* the real_time of the Stop that build_stops makes of the stop id
stop_rt(a, t, id) ==
    LET cutoff_time == t - grace_period
        Here(rt) == rt.stop_id = SomeId(id)
        Retained(rt) == IsRetained(rt, cutoff_time)
        matched == SelectSeq(a.real_time, Here)
                     \o scheduled_entries(
                          trip_updates_by_stop(a.trip_updates, cutoff_time, id), id)
    IN  truncate(sort_by_key(SelectSeq(matched, Retained)), MAX_ARRIVALS_PER_STOP)

\* alerts.iter().filter(|alert| alert.stop_ids.contains(&id))
stop_alerts(a, id) ==
    LET Here(alert) == id \in alert.stop_ids
    IN  SelectSeq(a.alerts, Here)

\* build_stops at the instant t: one Stop per entry of stops_data, in order
build_stops(a, t) ==
    [ i \in 1..Len(a.stops_data) |->
        [ stop_id |-> a.stops_data[i],
          alerts |-> stop_alerts(a, a.stops_data[i]),
          real_time |-> stop_rt(a, t, a.stops_data[i]) ] ]

---------------------------------------------------------------------------
(* NVTModels::get_scheduled_arrivals: arrivals from the static schedules *)

SECONDS_IN_DAY == 86400
LATE_EVENING_THRESHOLD == 79200

\* Option<String>
SomeStr(str) == [ some |-> TRUE, v |-> str ]
NoStr == [ some |-> FALSE, v |-> "" ]
unwrap_or_default(opt) == IF opt.some THEN opt.v ELSE ""

\* Option<u32>
SomeU32(n) == [ some |-> TRUE, v |-> n ]
NoU32 == [ some |-> FALSE, v |-> 0 ]

\* str::parse::<u32> of one part of a time: the value, or -1 for an Err
parse_u32(part) ==
    CASE part = "00" -> 0
      [] part = "08" -> 8
      [] part = "15" -> 15
      [] part = "22" -> 22
      [] part = "25" -> 25
      [] part = "30" -> 30
      [] OTHER -> -1

\* parse_gtfs_time: a time is the sequence of its parts between ':'
\* characters, "25:30:00" is <<"25", "30", "00">>
parse_gtfs_time(time_str) ==
    IF Len(time_str) # 3 THEN NoU32
    ELSE IF \E i \in 1..3 : parse_u32(time_str[i]) < 0 THEN NoU32
    ELSE SomeU32(parse_u32(time_str[1]) * 3600 + parse_u32(time_str[2]) * 60
                   + parse_u32(time_str[3]))

\* a.arrival_time.cmp(&b.arrival_time) is Less: the order of the strings, which
\* for parts of two digits is the order of the parts read as numbers, the
\* first different part deciding
RECURSIVE cmp_less(_, _)
cmp_less(a, b) ==
    IF a = <<>> THEN b # <<>>
    ELSE IF b = <<>> THEN FALSE
    ELSE IF Head(a) = Head(b) THEN cmp_less(Tail(a), Tail(b))
    ELSE parse_u32(Head(a)) < parse_u32(Head(b))

\* extract_line_code_from_route: the last segment of the route id for TBM and
\* TransGironde, the route id itself for the other operators
extract_line_code_from_route(route_id, operator) ==
    IF operator \in {"TBM", "TransGironde"}
      THEN <<route_id[Len(route_id)]>>
      ELSE route_id

is_service_active_weekly_only(service_id, date, weekday, calendar, calendar_dates) ==
    /\ service_id \in DOMAIN calendar
    /\ date >= calendar[service_id].start_date
    /\ date <= calendar[service_id].end_date
    /\ weekday \in 0..6
    /\ calendar[service_id].days[weekday + 1]

\* is_service_active: an exception of calendar_dates for the date decides,
\* the first one found; else the calendar, by period and day of the week
is_service_active(service_id, date, weekday, calendar, calendar_dates) ==
    LET exceptions == IF service_id \in DOMAIN calendar_dates
                        THEN calendar_dates[service_id] ELSE <<>>
        today == { i \in 1..Len(exceptions) : exceptions[i].date = date }
    IN  IF today # {}
          THEN exceptions[CHOOSE i \in today : \A j \in today : i <= j].exception_type = 1
          ELSE IF service_id \in DOMAIN calendar
                 THEN LET cal == calendar[service_id]
                      IN  IF date < cal.start_date \/ date > cal.end_date
                            THEN FALSE
                            ELSE IF weekday \in 0..6 THEN cal.days[weekday + 1] ELSE FALSE
                 ELSE FALSE

is_future_from_noon(arrival_seconds, current_seconds) ==
    IF arrival_seconds >= SECONDS_IN_DAY
      THEN current_seconds >= 43200
      ELSE arrival_seconds >= current_seconds

\* let is_future = ..
is_future(arrival_seconds, current_seconds) ==
    IF arrival_seconds >= SECONDS_IN_DAY
      THEN current_seconds >= LATE_EVENING_THRESHOLD
      ELSE arrival_seconds >= current_seconds

\* the arrivals pushed for one GTFS cache, in the order of its stop times
arrivals_of(gtfs_cache, operator, stop_id, local) ==
    LET stop_times == IF stop_id \in DOMAIN gtfs_cache.stop_times
                        THEN gtfs_cache.stop_times[stop_id] ELSE <<>>
        Pushed(stop_time) ==
          /\ stop_time.trip_id \in DOMAIN gtfs_cache.trips
          /\ is_service_active(gtfs_cache.trips[stop_time.trip_id].service_id,
                               local.today_date, local.weekday_num,
                               gtfs_cache.calendar, gtfs_cache.calendar_dates)
          /\ parse_gtfs_time(stop_time.arrival_time).some
          /\ is_future(parse_gtfs_time(stop_time.arrival_time).v, local.current_seconds)
        kept == SelectSeq(stop_times, Pushed)
    IN  [ i \in 1..Len(kept) |->
            LET trip == gtfs_cache.trips[kept[i].trip_id]
            IN  [ trip_id |-> kept[i].trip_id,
                  route_id |-> trip.route_id,
                  line_code |-> extract_line_code_from_route(trip.route_id, operator),
                  line_color |-> IF trip.route_id \in DOMAIN gtfs_cache.routes
                                   THEN gtfs_cache.routes[trip.route_id] ELSE "808080",
                  arrival_time |-> kept[i].arrival_time,
                  destination |-> trip.trip_headsign,
                  operator |-> operator ] ]

\* scheduled_arrivals.sort_by(..): a stable sort by arrival_time
RECURSIVE sort_by_arrival_time(_)
sort_by_arrival_time(list) ==
    IF list = <<>> THEN <<>>
    ELSE LET front == sort_by_arrival_time(SubSeq(list, 1, Len(list) - 1))
             e == list[Len(list)]
             n == Cardinality({ i \in 1..Len(front) :
                                  ~cmp_less(e.arrival_time, front[i].arrival_time) })
         IN  SubSeq(front, 1, n) \o <<e>> \o SubSeq(front, n + 1, Len(front))

\* the key of the deduplication
arrival_key(arrival) ==
    <<arrival.line_code, arrival.arrival_time, unwrap_or_default(arrival.destination)>>

dedup_after_truncate(list, max_results) ==
    LET cut == IF Len(list) > max_results THEN SubSeq(list, 1, max_results) ELSE list
        first == { i \in 1..Len(cut) :
                     \A j \in 1..(i - 1) : arrival_key(cut[j]) # arrival_key(cut[i]) }
        Nth(n) == CHOOSE i \in first : Cardinality({ j \in first : j <= i }) = n
    IN  [ n \in 1..Cardinality(first) |-> cut[Nth(n)] ]

\* scheduled_arrivals.retain(|arrival| seen.insert(key)), then
\* scheduled_arrivals.truncate(max_results)
dedup_and_truncate(list, max_results) ==
    LET first == { i \in 1..Len(list) :
                     \A j \in 1..(i - 1) : arrival_key(list[j]) # arrival_key(list[i]) }
        Nth(n) == CHOOSE i \in first : Cardinality({ j \in first : j <= i }) = n
    IN  truncate([ n \in 1..Cardinality(first) |-> list[Nth(n)] ], max_results)

\* get_scheduled_arrivals with the local clock reading `local`
get_scheduled_arrivals(stop_id, c, max_results, local) ==
    dedup_and_truncate(
        sort_by_arrival_time(
            arrivals_of(c.tbm_gtfs_cache, "TBM", stop_id, local)
              \o arrivals_of(c.transgironde_gtfs_cache, "TransGironde", stop_id, local)
              \o arrivals_of(c.sncf_gtfs_cache, "SNCF", stop_id, local)),
        max_results)

---------------------------------------------------------------------------
(* The archives of the regional and national-rail operators, and the view
   of the whole network computed for a read: to_network_data *)

\* a HashMap without entries
EmptyMap == [ k \in {} |-> <<>> ]

\* the text after the last '-' of a segment, for the segments that hold one
AfterLastDash(segment) ==
    CASE segment = "OCETGV INOUI-87192039" -> SomeStr("87192039")
      [] segment = "OCETrain TER-71793150" -> SomeStr("71793150")
      [] segment = "a-b-c" -> SomeStr("c")
      [] OTHER -> NoStr

\* extract_sncf_stop_id: the text after the last '-' of the identifier, else
\* the identifier itself
extract_sncf_stop_id(full_id) ==
    LET dashed == { i \in 1..Len(full_id) : AfterLastDash(full_id[i]).some }
    IN  IF dashed # {}
          THEN LET k == CHOOSE i \in dashed : \A j \in dashed : j <= i
               IN  SomeId(<<AfterLastDash(full_id[k]).v>>
                            \o SubSeq(full_id, k + 1, Len(full_id)))
          ELSE SomeId(full_id)

\* extract_line_id: line_ref.split(':').nth(2)
extract_line_id(line_ref) ==
    IF Len(line_ref) >= 3 THEN SomeId(<<line_ref[3]>>) ELSE NoId

\* lat_str.parse::<f64>() and lon_str.parse::<f64>() succeed and neither
\* value is 0.0
IsLocated(row) == row.lat \in {"44.84", "NaN"}

\* a row of stops.txt is kept unless it is a parent station or has no place
IsStopRow(row) == row.location_type # "1" /\ IsLocated(row)

\* parse_transgironde_stops: the stop ids of the rows kept, as they are
parse_transgironde_stops(stops_txt) ==
    LET kept == SelectSeq(stops_txt, IsStopRow)
    IN  [ i \in 1..Len(kept) |-> kept[i].stop_id ]

\* parse_sncf_stops: the simplified stop ids of the rows kept
parse_sncf_stops(stops_txt) ==
    LET kept == SelectSeq(stops_txt, IsStopRow)
    IN  [ i \in 1..Len(kept) |-> extract_sncf_stop_id(kept[i].stop_id).v ]

\* parse_stop_times: the rows of stop_times.txt by their stop id, each list
\* sorted by arrival time
parse_stop_times(stop_times_txt) ==
    LET ids == { stop_times_txt[i].stop_id : i \in 1..Len(stop_times_txt) }
    IN  [ stop \in ids |->
            LET Here(row) == row.stop_id = stop
            IN  sort_by_arrival_time(SelectSeq(stop_times_txt, Here)) ]

\* the GTFSCache that load_transgironde_data makes of a downloaded archive
transgironde_gtfs_cache(archive) ==
    [ routes |-> archive.routes, stops |-> parse_transgironde_stops(archive.stops),
      stop_times |-> parse_stop_times(archive.stop_times), trips |-> archive.trips,
      calendar |-> archive.calendar, calendar_dates |-> archive.calendar_dates,
      agencies |-> archive.agencies, route_agencies |-> archive.route_agencies ]

\* the GTFSCache that load_sncf_data makes of a downloaded archive
sncf_gtfs_cache(archive) ==
    [ routes |-> archive.routes, stops |-> parse_sncf_stops(archive.stops),
      stop_times |-> parse_stop_times(archive.stop_times), trips |-> archive.trips,
      calendar |-> archive.calendar, calendar_dates |-> archive.calendar_dates,
      agencies |-> EmptyMap, route_agencies |-> EmptyMap ]

\* Stop and Line, with the fields the view is read by
Stop(stop_id, lines, alerts, real_time) ==
    [ stop_id |-> stop_id, lines |-> lines, alerts |-> alerts, real_time |-> real_time ]
Line(line_ref, line_code, route_id, color, alerts, operator) ==
    [ line_ref |-> line_ref, line_code |-> line_code, route_id |-> route_id,
      color |-> color, alerts |-> alerts, operator |-> operator ]

\* stop_to_routes: for the keys of stop_times, the route ids of the trips
\* of trips that have a stop time filed under the key
stop_to_routes(gtfs) ==
    LET Known(stop) == { i \in 1..Len(gtfs.stop_times[stop]) :
                           gtfs.stop_times[stop][i].trip_id \in DOMAIN gtfs.trips }
        served == { stop \in DOMAIN gtfs.stop_times : Known(stop) # {} }
    IN  [ stop \in served |->
            { gtfs.trips[gtfs.stop_times[stop][i].trip_id].route_id : i \in Known(stop) } ]

\* the stops that parse_transgironde_from_cache and parse_sncf_from_cache
\* create, one per entry of cache.stops
stops_from_cache(gtfs) ==
    [ i \in 1..Len(gtfs.stops) |->
        Stop(gtfs.stops[i],
             IF gtfs.stops[i] \in DOMAIN stop_to_routes(gtfs)
               THEN stop_to_routes(gtfs)[gtfs.stops[i]] ELSE {},
             <<>>, <<>>) ]

\* the operator of a regional route: the name of its agency, or a default
operator_of(gtfs, route_id) ==
    IF route_id \in DOMAIN gtfs.route_agencies
      THEN IF gtfs.route_agencies[route_id] \in DOMAIN gtfs.agencies
             THEN gtfs.agencies[gtfs.route_agencies[route_id]]
             ELSE "New-Aquitaine"
      ELSE "New-Aquitaine"

\* parse_transgironde_from_cache; iter is the order in which the HashMap of
\* the routes is iterated
parse_transgironde_from_cache(gtfs, iter) ==
    [ stops |-> stops_from_cache(gtfs),
      lines |-> [ i \in 1..Len(iter) |->
                    Line(iter[i], <<iter[i][Len(iter[i])]>>, iter[i],
                         gtfs.routes[iter[i]], <<>>, operator_of(gtfs, iter[i])) ],
      cache |-> gtfs ]

\* parse_sncf_from_cache
parse_sncf_from_cache(gtfs, iter) ==
    [ stops |-> stops_from_cache(gtfs),
      lines |-> [ i \in 1..Len(iter) |->
                    Line(iter[i], <<iter[i][Len(iter[i])]>>, iter[i],
                         gtfs.routes[iter[i]], <<>>, "SNCF") ],
      cache |-> gtfs ]

\* build_lines: one Line per entry of lines_data, in order; the route id is
\* the third segment of the line ref, the code the one of the entry
build_lines(lines_data, alerts, gtfs_cache) ==
    [ i \in 1..Len(lines_data) |->
        LET code == lines_data[i].code
            line_id_str == IF extract_line_id(lines_data[i].line_ref).some
                             THEN extract_line_id(lines_data[i].line_ref).v ELSE <<"">>
            color == IF line_id_str \in DOMAIN gtfs_cache.routes
                       THEN gtfs_cache.routes[line_id_str] ELSE "808080"
            Affects(alert) == code \in alert.route_ids \/ line_id_str \in alert.route_ids
        IN  Line(lines_data[i].line_ref, code, line_id_str, color,
                 SelectSeq(alerts, Affects), "TBM") ]

\* the entries of a list whose id no earlier entry has
RECURSIVE first_of_each_id(_)
first_of_each_id(list) ==
    IF list = <<>> THEN <<>>
    ELSE LET front == first_of_each_id(SubSeq(list, 1, Len(list) - 1))
             e == list[Len(list)]
         IN  IF \E i \in 1..Len(front) : front[i].id = e.id THEN front ELSE front \o <<e>>

to_network_data_by_id(c, t) ==
    LET Keyed(stops) == [ i \in 1..Len(stops) |-> [ id |-> stops[i].stop_id, e |-> stops[i] ] ]
        KeyedLines(lines) == [ i \in 1..Len(lines) |-> [ id |-> lines[i].route_id, e |-> lines[i] ] ]
        Entries(list) == [ i \in 1..Len(list) |-> list[i].e ]
        tbm == [ stops_data |-> c.tbm_stops_metadata, alerts |-> c.alerts,
                 real_time |-> c.real_time, trip_updates |-> c.trip_updates ]
    IN  [ stops |-> Entries(first_of_each_id(Keyed(
                      build_stops(tbm, t) \o c.transgironde_stops \o c.sncf_stops))),
          lines |-> Entries(first_of_each_id(KeyedLines(
                      build_lines(c.tbm_lines_metadata, c.alerts, c.tbm_gtfs_cache)
                        \o c.transgironde_lines \o c.sncf_lines))) ]

\* to_network_data at the instant t: the stops and lines built of the urban
\* metadata, then the regional ones, then the national-rail ones
to_network_data(c, t) ==
    LET tbm == [ stops_data |-> c.tbm_stops_metadata, alerts |-> c.alerts,
                 real_time |-> c.real_time, trip_updates |-> c.trip_updates ]
    IN  [ stops |-> build_stops(tbm, t) \o c.transgironde_stops \o c.sncf_stops,
          lines |-> build_lines(c.tbm_lines_metadata, c.alerts, c.tbm_gtfs_cache)
                      \o c.transgironde_lines \o c.sncf_lines ]

---------------------------------------------------------------------------
(* Startup: main *)

Init ==
    /\ phase = "starting"
    /\ boot = NoBoot
    /\ now = 0
    /\ cache = NoCache
    /\ lock = NoOne
    /\ pc = [ p \in Procs |-> "idle" ]
    /\ fetched = [ p \in Refreshers |-> NoFetch ]
    /\ result = [ p \in Refreshers |-> "none" ]
    /\ poisoned = FALSE
    /\ disk = [ path \in CachePaths |-> NoFile ]
    /\ loaded = NoLoad
    /\ args = NoCall
    /\ ret = NoCall

\* initialize_cache's blocking fetches return
InitFetch(IO) ==
    /\ phase = "starting"
    /\ \E o \in IO : boot' = o
    /\ phase' = "initializing"
    /\ UNCHANGED <<now, cache, lock, pc, fetched, result, poisoned, disk, loaded, args, ret>>

\* main: Err -> std::process::exit(1); Ok(cache) -> run_server(cache)
InitFinish ==
    /\ phase = "initializing"
    /\ IF initialize_cache_fails(boot)
         THEN /\ phase' = "exited"
              /\ UNCHANGED <<boot, cache>>
         ELSE /\ phase' = "serving"
              /\ cache' = initialize_cache(boot, now)
              /\ boot' = NoBoot
    /\ UNCHANGED <<now, lock, pc, fetched, result, poisoned, disk, loaded, args, ret>>

\* the wall clock moves forward to a later instant (time is counted from startup)
Advance(t) ==
    /\ phase = "serving"
    /\ t > now
    /\ now' = t
    /\ UNCHANGED <<phase, boot, cache, lock, pc, fetched, result, poisoned, disk, loaded, args, ret>>

---------------------------------------------------------------------------
(* data_refresh_task ("timer") and force_refresh ("manual") *)

AfterRefresh_panic_ends_loop(p, outcome) ==
    IF outcome = "Panicked" THEN "ended" ELSE "idle"

\* where the caller of spawn_blocking goes after the match on its outcome
\* ("Ok" for Ok(Ok(())), "Err" for Ok(Err(e)), "Panicked" for Err(e)): every
\* arm of data_refresh_task only logs and falls through to the next
\* interval.tick(); every arm of force_refresh answers the request
AfterRefresh(p, outcome) == "idle"

\* interval.tick() fires, or POST /refresh arrives: the closure is handed to
\* spawn_blocking
Trigger(p) ==
    /\ phase = "serving"
    /\ pc[p] = "idle"
    /\ pc' = [ pc EXCEPT ![p] = "lock" ]
    /\ UNCHANGED <<phase, boot, now, cache, lock, fetched, result, poisoned, disk, loaded, args, ret>>

\* state_clone.lock() returns the guard; smart_refresh starts with
\* refresh_dynamic_data, whose fetches block
Acquire(p) ==
    /\ pc[p] = "lock"
    /\ MutexFree
    /\ ~poisoned
    /\ lock' = p
    /\ pc' = [ pc EXCEPT ![p] = "dyn_fetch" ]
    /\ UNCHANGED <<phase, boot, now, cache, fetched, result, poisoned, disk, loaded, args, ret>>

\* the five real-time fetches return
FetchDynamic(p, DO) ==
    /\ pc[p] = "dyn_fetch"
    /\ \E o \in DO :
         /\ Len(refresh_dynamic_data(cache, o, now).alerts) <= MaxLen
         /\ Len(refresh_dynamic_data(cache, o, now).trip_updates) <= MaxLen
         /\ fetched' = [ fetched EXCEPT ![p] = [ dyn |-> o, sta |-> NoStatic ] ]
    /\ pc' = [ pc EXCEPT ![p] = "dyn_commit" ]
    /\ UNCHANGED <<phase, boot, now, cache, lock, result, poisoned, disk, loaded, args, ret>>

\* refresh_dynamic_data stores the results and returns Ok; smart_refresh then
\* evaluates needs_static_refresh
CommitDynamic(p) ==
    /\ pc[p] = "dyn_commit"
    /\ cache' = refresh_dynamic_data(cache, fetched[p].dyn, now)
    /\ IF needs_static_refresh(cache, STATIC_DATA_MAX_AGE, now)
         THEN /\ pc' = [ pc EXCEPT ![p] = "sta_fetch" ]
              /\ UNCHANGED <<result>>
         ELSE /\ pc' = [ pc EXCEPT ![p] = "done" ]
              /\ result' = [ result EXCEPT ![p] = "Ok" ]
    /\ UNCHANGED <<phase, boot, now, lock, fetched, poisoned, disk, loaded, args, ret>>

\* the static loads of refresh_static_data return
FetchStatic(p, SO) ==
    /\ pc[p] = "sta_fetch"
    /\ \E o \in SO : fetched' = [ fetched EXCEPT ![p] = [ dyn |-> NoDyn, sta |-> o ] ]
    /\ pc' = [ pc EXCEPT ![p] = "sta_commit" ]
    /\ UNCHANGED <<phase, boot, now, cache, lock, result, poisoned, disk, loaded, args, ret>>

\* refresh_static_data stores what it loaded and returns; smart_refresh returns
\* the same value
CommitStatic(p) ==
    /\ pc[p] = "sta_commit"
    /\ cache' = refresh_static_data(cache, fetched[p].sta, now)
    /\ result' = [ result EXCEPT ![p] = refresh_static_result(fetched[p].sta) ]
    /\ pc' = [ pc EXCEPT ![p] = "done" ]
    /\ UNCHANGED <<phase, boot, now, lock, fetched, poisoned, disk, loaded, args, ret>>

\* the closure of the task that ends also ends the closures still waiting for
\* the guard
Release_merging(p) ==
    /\ pc[p] = "done"
    /\ lock' = NoOne
    /\ pc' = [ q \in Procs |-> IF q = p \/ pc[q] = "lock" THEN "idle" ELSE pc[q] ]
    /\ fetched' = [ fetched EXCEPT ![p] = NoFetch ]
    /\ UNCHANGED <<phase, boot, now, cache, result, poisoned, disk, loaded, args, ret>>

\* a closure that would end without dropping the guard
Release_holding(p) ==
    /\ pc[p] = "done"
    /\ pc' = [ pc EXCEPT ![p] = AfterRefresh(p, result[p]) ]
    /\ fetched' = [ fetched EXCEPT ![p] = NoFetch ]
    /\ UNCHANGED <<phase, boot, now, cache, lock, result, poisoned, disk, loaded, args, ret>>

\* the closure ends: the guard is dropped, and the caller matches on what
\* spawn_blocking(..).await returned
Release(p) ==
    /\ pc[p] = "done"
    /\ lock' = NoOne
    /\ pc' = [ pc EXCEPT ![p] = AfterRefresh(p, result[p]) ]
    /\ fetched' = [ fetched EXCEPT ![p] = NoFetch ]
    /\ UNCHANGED <<phase, boot, now, cache, result, poisoned, disk, loaded, args, ret>>

\* the closure panics inside smart_refresh: the unwinding drops the guard,
\* which poisons the Mutex, and spawn_blocking(..).await returns Err(JoinError)
Panic(p) ==
    /\ pc[p] \in {"dyn_fetch", "dyn_commit", "sta_fetch", "sta_commit"}
    /\ lock' = NoOne
    /\ poisoned' = TRUE
    /\ result' = [ result EXCEPT ![p] = "Panicked" ]
    /\ pc' = [ pc EXCEPT ![p] = AfterRefresh(p, "Panicked") ]
    /\ fetched' = [ fetched EXCEPT ![p] = NoFetch ]
    /\ UNCHANGED <<phase, boot, now, cache, disk, loaded, args, ret>>

\* a lock() that would recover the guard of a poisoned Mutex
LockPoisoned_recovers(p) ==
    /\ pc[p] = "lock"
    /\ MutexFree
    /\ poisoned
    /\ lock' = p
    /\ pc' = [ pc EXCEPT ![p] = "dyn_fetch" ]
    /\ UNCHANGED <<phase, boot, now, cache, fetched, result, poisoned, disk, loaded, args, ret>>

\* state_clone.lock() returns Err(PoisonError): the closure returns
\* Err("Failed to lock cache") without calling smart_refresh
LockPoisoned(p) ==
    /\ pc[p] = "lock"
    /\ MutexFree
    /\ poisoned
    /\ result' = [ result EXCEPT ![p] = "Err" ]
    /\ pc' = [ pc EXCEPT ![p] = AfterRefresh(p, "Err") ]
    /\ UNCHANGED <<phase, boot, now, cache, lock, fetched, poisoned, disk, loaded, args, ret>>

---------------------------------------------------------------------------
(* Read handlers: get_network_data and the other GET handlers *)

Request(r) ==
    /\ phase = "serving"
    /\ pc[r] = "idle"
    /\ pc' = [ pc EXCEPT ![r] = "lock" ]
    /\ UNCHANGED <<phase, boot, now, cache, lock, fetched, result, poisoned, disk, loaded, args, ret>>

\* state.cache.lock() returns the guard; the handler computes its projection
ReadLock(r) ==
    /\ pc[r] = "lock"
    /\ MutexFree
    /\ ~poisoned
    /\ lock' = r
    /\ pc' = [ pc EXCEPT ![r] = "read" ]
    /\ UNCHANGED <<phase, boot, now, cache, fetched, result, poisoned, disk, loaded, args, ret>>

\* the response is built and the guard is dropped
Respond(r) ==
    /\ pc[r] = "read"
    /\ lock' = NoOne
    /\ pc' = [ pc EXCEPT ![r] = "idle" ]
    /\ UNCHANGED <<phase, boot, now, cache, fetched, result, poisoned, disk, loaded, args, ret>>

\* state.cache.lock() returns Err(PoisonError): the handler takes its Err arm
ReadPoisoned(r) ==
    /\ pc[r] = "lock"
    /\ MutexFree
    /\ poisoned
    /\ pc' = [ pc EXCEPT ![r] = "refused" ]
    /\ UNCHANGED <<phase, boot, now, cache, lock, fetched, result, poisoned, disk, loaded, args, ret>>

\* the handler answers HttpResponse::InternalServerError()
RespondFailure(r) ==
    /\ pc[r] = "refused"
    /\ pc' = [ pc EXCEPT ![r] = "idle" ]
    /\ UNCHANGED <<phase, boot, now, cache, lock, fetched, result, poisoned, disk, loaded, args, ret>>

---------------------------------------------------------------------------
(* The cache files: load_transgironde_data, load_sncf_data and
   download_and_read_gtfs *)

\* a loader starts with GTFSCache::load(source, max age of the source)
LoadCache(s) ==
    /\ loaded' = [ source |-> s, res |-> load(s, MaxAgeDays(s), now, disk) ]
    /\ UNCHANGED <<phase, boot, now, cache, lock, pc, fetched, result, poisoned, disk, args, ret>>

\* load returned None: the loader downloads and parses the archive, stamps
\* cached_at with the current time and saves the new GTFSCache; a failed
\* write is only logged
DownloadAndSave(s, V, CO) ==
    /\ loaded.source = s
    /\ ~loaded.res.some
    /\ \E ver \in V, coord \in CO, written \in BOOLEAN :
         disk' = IF written THEN save(GTFSCache(s, now, ver, coord), disk) ELSE disk
    /\ loaded' = NoLoad
    /\ UNCHANGED <<phase, boot, now, cache, lock, pc, fetched, result, poisoned, args, ret>>

\* what the file system may leave in place of a cache file: nothing, a file
\* that cannot be read, text that is not JSON, a cache stamped by a clock
\* that is ahead
FutureStamp == (REGIONAL_MAX_AGE_DAYS + 1) * SECONDS_PER_DAY
DamagedFiles(s) ==
    { NoFile, Unreadable, TextFile(Garbage),
      TextFile(to_string_pretty(GTFSCache(s, FutureStamp, 1, "44.84"))) }

\* the file system outside the program: a file is deleted, loses its read
\* permission, or is overwritten with other text
DamageFile(s) ==
    /\ \E f \in DamagedFiles(s) : disk' = [ disk EXCEPT ![cache_path(s)] = f ]
    /\ UNCHANGED <<phase, boot, now, cache, lock, pc, fetched, result, poisoned, loaded, args, ret>>

---------------------------------------------------------------------------
(* The projection computed for a read: to_network_data calls build_stops *)

\* the handler of a read finds in the cache the stops, alerts, vehicle
\* positions and trip updates it will pass to build_stops
ReadStops(A) ==
    /\ phase = "serving"
    /\ args = NoCall
    /\ \E a \in A :
         args' = [ fn |-> "build_stops", stops_data |-> a.stops_data,
                   alerts |-> a.alerts, real_time |-> a.real_time,
                   trip_updates |-> a.trip_updates ]
    /\ UNCHANGED <<phase, boot, now, cache, lock, pc, fetched, result, poisoned, disk,
                   loaded, ret>>

\* build_stops runs on them and reads the clock once
BuildStops ==
    /\ args.fn = "build_stops"
    /\ ret' = [ fn |-> "build_stops", at |-> now, stops |-> build_stops(args, now) ]
    /\ UNCHANGED <<phase, boot, now, cache, lock, pc, fetched, result, poisoned, disk,
                   loaded, args>>

\* a request for the scheduled arrivals of a stop finds the schedules in the
\* cache and reads the local clock
ReadSchedules(A) ==
    /\ phase = "serving"
    /\ args = NoCall
    /\ \E a \in A :
         args' = [ fn |-> "get_scheduled_arrivals", stop_id |-> a.stop_id,
                   cache |-> a.cache, max_results |-> a.max_results, local |-> a.local ]
    /\ UNCHANGED <<phase, boot, now, cache, lock, pc, fetched, result, poisoned, disk,
                   loaded, ret>>

\* get_scheduled_arrivals returns
GetScheduledArrivals ==
    /\ args.fn = "get_scheduled_arrivals"
    /\ ret.fn = "none"
    /\ ret' = [ fn |-> "get_scheduled_arrivals",
                arrivals |-> get_scheduled_arrivals(args.stop_id, args.cache,
                                                    args.max_results, args.local) ]
    /\ UNCHANGED <<phase, boot, now, cache, lock, pc, fetched, result, poisoned, disk,
                   loaded, args>>

\* the handler of a read locks the cache and finds in it the data of the
\* three operators and the real-time lists
ReadNetwork(A) ==
    /\ phase = "serving"
    /\ args = NoCall
    /\ \E a \in A : args' = [ fn |-> "to_network_data", cache |-> a ]
    /\ UNCHANGED <<phase, boot, now, cache, lock, pc, fetched, result, poisoned, disk,
                   loaded, ret>>

\* to_network_data runs on &self and returns the view
ToNetworkData ==
    /\ args.fn = "to_network_data"
    /\ ret.fn = "none"
    /\ ret' = [ fn |-> "to_network_data", at |-> now,
                data |-> to_network_data(args.cache, now) ]
    /\ UNCHANGED <<phase, boot, now, cache, lock, pc, fetched, result, poisoned, disk,
                   loaded, args>>

\* a raw reference of a stop or of a line reaches one of the functions that
\* extract the identifier
ReadRef(A) ==
    /\ phase = "serving"
    /\ args = NoCall
    /\ \E a \in A : args' = [ fn |-> a.fn, id |-> a.id ]
    /\ UNCHANGED <<phase, boot, now, cache, lock, pc, fetched, result, poisoned, disk,
                   loaded, ret>>

\* extract_stop_id, extract_line_id and extract_sncf_stop_id return
ExtractStopId ==
    /\ args.fn = "extract_stop_id"
    /\ ret.fn = "none"
    /\ ret' = [ fn |-> "extract_stop_id", v |-> extract_stop_id(args.id) ]
    /\ UNCHANGED <<phase, boot, now, cache, lock, pc, fetched, result, poisoned, disk,
                   loaded, args>>
ExtractLineId ==
    /\ args.fn = "extract_line_id"
    /\ ret.fn = "none"
    /\ ret' = [ fn |-> "extract_line_id", v |-> extract_line_id(args.id) ]
    /\ UNCHANGED <<phase, boot, now, cache, lock, pc, fetched, result, poisoned, disk,
                   loaded, args>>
ExtractSncfStopId ==
    /\ args.fn = "extract_sncf_stop_id"
    /\ ret.fn = "none"
    /\ ret' = [ fn |-> "extract_sncf_stop_id", v |-> extract_sncf_stop_id(args.id) ]
    /\ UNCHANGED <<phase, boot, now, cache, lock, pc, fetched, result, poisoned, disk,
                   loaded, args>>

---------------------------------------------------------------------------
(* refresh_static_data with the cache files: the discovery feeds, then the
   loaders of the three sources, one after the other *)

\* what a fetch or a loader of the static refresh returned: whether it went
\* to the network, whether the archive came and parsed, whether the new
\* cache was written to disk
LoaderReturn(source, downloaded, archive_ok, saved) ==
    [ fn |-> "refresh_static_data", source |-> source, downloaded |-> downloaded,
      archive |-> IF archive_ok THEN "ok" ELSE "err",
      st |-> IF archive_ok THEN "ok" ELSE "err", saved |-> saved ]

\* the order in which refresh_static_data calls the loaders
LoaderOrder == <<"TBM", "NewAquitaine", "SNCF">>

\* the static refresh once the loader of the first source left has returned
AfterLoader(a) ==
    IF Len(a.todo) = 1 THEN NoCall ELSE [ a EXCEPT !.todo = Tail(a.todo) ]

\* if let Some(cache) = GTFSCache::load(..) { return .. }: the loader goes on
\* to the download only when load returned None
MustDownload(res) == ~res.some

\* refresh_static_data begins: fetch_stops and fetch_lines go to the network;
\* when one of them fails the refresh returns the error
FetchDiscovery ==
    /\ phase = "serving"
    /\ args = NoCall
    /\ loaded = NoLoad
    /\ \E ok \in BOOLEAN :
         /\ ret' = LoaderReturn("discovery", TRUE, ok, FALSE)
         /\ args' = IF ok THEN [ fn |-> "refresh_static_data", todo |-> LoaderOrder ]
                          ELSE NoCall
    /\ UNCHANGED <<phase, boot, now, cache, lock, pc, fetched, result, poisoned, disk,
                   loaded>>

\* the next loader starts with GTFSCache::load
LoadNext ==
    /\ args.fn = "refresh_static_data"
    /\ loaded = NoLoad
    /\ LoadCache(Head(args.todo))

\* load returned a cache: the loader returns what it parses from it
ReturnCached ==
    /\ args.fn = "refresh_static_data"
    /\ loaded.source = Head(args.todo)
    /\ ~MustDownload(loaded.res)
    /\ ret' = LoaderReturn(loaded.source, FALSE, TRUE, FALSE)
    /\ loaded' = NoLoad
    /\ args' = AfterLoader(args)
    /\ UNCHANGED <<phase, boot, now, cache, lock, pc, fetched, result, poisoned, disk>>

\* load returned None: the loader downloads the archive and parses it (an
\* error of either is returned), stamps the new GTFSCache with the current
\* time and saves it; a failed write is only logged
DownloadArchive(V, CO) ==
    /\ args.fn = "refresh_static_data"
    /\ loaded.source = Head(args.todo)
    /\ MustDownload(loaded.res)
    /\ \E archive_ok \in BOOLEAN, ver \in V, coord \in CO, written \in BOOLEAN :
         /\ disk' = IF archive_ok /\ written
                      THEN save(GTFSCache(loaded.source, now, ver, coord), disk) ELSE disk
         /\ ret' = LoaderReturn(loaded.source, TRUE, archive_ok, archive_ok /\ written)
    /\ loaded' = NoLoad
    /\ args' = AfterLoader(args)
    /\ UNCHANGED <<phase, boot, now, cache, lock, pc, fetched, result, poisoned>>

---------------------------------------------------------------------------
(* Specifications *)

\* one step of the server: P are the tasks that refresh, R the read handlers,
\* SO and DO what the static loads and the real-time fetches may return, CS the
\* instants at which the clock is observed
Step(P, R, SO, DO, CS) ==
    \/ InitFetch(InitOutcomes(SO, DO))
    \/ InitFinish
    \/ \E t \in CS : Advance(t)
    \/ \E p \in P : Trigger(p)
    \/ \E p \in P : Acquire(p)
    \/ \E p \in P : FetchDynamic(p, DO)
    \/ \E p \in P : CommitDynamic(p)
    \/ \E p \in P : FetchStatic(p, SO)
    \/ \E p \in P : CommitStatic(p)
    \/ \E p \in P : Release(p)
    \/ \E r \in R : Request(r)
    \/ \E r \in R : ReadLock(r)
    \/ \E r \in R : Respond(r)

\* the instants around the static-refresh threshold
ClockInstants == {1} \cup (STATIC_DATA_MAX_AGE .. MaxTime)

One == {1}
Wide == 1..MaxVersion

\* every real-time endpoint answers, or none does
DynTogether(V) ==
    { o \in DynOutcomes(V) :
        \A f \in {"vehicles", "trips", "sncf_alerts", "sncf_trips"} : o[f].st = o.alerts.st }

\* every static load succeeds, or the first one fails
StaticTogether(V) ==
    { o \in StaticOutcomes(V) :
        \A f \in {"lines", "tbm_gtfs", "regional", "sncf"} : IsOk(o.stops) => IsOk(o[f]) }

\* the static side under study: the discovery feeds publish several versions
StaticStudy ==
    StaticOutcomes([ stops |-> Wide, lines |-> Wide, tbm_gtfs |-> One,
                     regional |-> Wide, sncf |-> One ])
DynPlain ==
    DynTogether([ alerts |-> One, vehicles |-> One, trips |-> One,
                  sncf_alerts |-> One, sncf_trips |-> One ])

\* the real-time side under study: the alert feeds publish several versions
DynStudy ==
    DynOutcomes([ alerts |-> Wide, vehicles |-> One, trips |-> One,
                  sncf_alerts |-> Wide, sncf_trips |-> One ])
StaticPlain ==
    StaticTogether([ stops |-> One, lines |-> One, tbm_gtfs |-> One,
                     regional |-> One, sncf |-> One ])

\* the periodic task alone, static data under study
Next == Step({"timer"}, {}, StaticStudy, DynPlain, ClockInstants)
Spec == Init /\ [][Next]_vars

\* the periodic task alone, real-time data under study
NextDyn == Step({"timer"}, {}, StaticPlain, DynStudy, {MaxTime})
SpecDyn == Init /\ [][NextDyn]_vars

\* the periodic task, a manual refresh and a read request side by side
NextConc == Step(Refreshers, Readers, StaticPlain, DynPlain, ClockInstants)
SpecConc == Init /\ [][NextConc]_vars

\* both refreshing tasks, with closures that may panic; the interval of
\* data_refresh_task keeps ticking
NextPanic ==
    \/ Step(Refreshers, {}, StaticPlain, DynPlain, {MaxTime})
    \/ \E p \in Refreshers : Panic(p)
    \/ \E p \in Refreshers : LockPoisoned(p)
SpecPanic == Init /\ [][NextPanic]_vars /\ WF_vars(Trigger("timer"))

\* the instants around the max ages of the cache files
DiskInstants ==
    UNION { ((d * SECONDS_PER_DAY - Slack) .. (d * SECONDS_PER_DAY)) :
              d \in {TBM_MAX_AGE_DAYS, REGIONAL_MAX_AGE_DAYS} }

\* the loaders of the three sources and their cache files, as time passes
\* what startup may fetch when no feed is under study
PlainOutcomes == InitOutcomes(StaticPlain, DynPlain)

NextDisk ==
    \/ InitFetch(PlainOutcomes)
    \/ InitFinish
    \/ \E t \in DiskInstants : Advance(t)
    \/ \E s \in Sources : LoadCache(s)
    \/ \E s \in Sources : DownloadAndSave(s, One, Coordinates)
    \/ \E s \in Sources : DamageFile(s)
SpecDisk == Init /\ [][NextDisk]_vars

\* the longest list of distinct vehicle positions given to build_stops
MaxSeed == 2

\* the instant at which build_stops is studied, and timestamps around its
\* cutoff: one second too old, exactly at the cutoff, the largest timestamp
StopsInstant == 1000
StopTimes ==
    { NoTime, SomeTime(StopsInstant - grace_period - 1),
      SomeTime(StopsInstant - grace_period), SomeTime(I64_MAX) }

StopIds == { <<"3001">>, <<"3002">> }

\* the seed list repeated n times
RECURSIVE Repeat(_, _)
Repeat(seed, n) == IF n = 0 THEN <<>> ELSE seed \o Repeat(seed, n - 1)

\* vehicle positions: lists of up to MaxSeed positions, as they are or
\* repeated until more than MAX_ARRIVALS_PER_STOP of them are at one stop
VehicleLists ==
    LET V == { RealTimeInfo("bus", "trip", sid, ts) :
                 sid \in { SomeId(id) : id \in StopIds } \cup { NoId }, ts \in StopTimes }
        Seeds == UNION { [ 1..n -> V ] : n \in 0..MaxSeed }
    IN  { Repeat(seed, n) : seed \in Seeds, n \in {1, MAX_ARRIVALS_PER_STOP + 1} }

\* trip updates: no update, or one trip with one stop_time_update whose stop
\* id is plain, prefixed, or missing
TripUpdateLists ==
    LET U == { StopTimeUpdate("trip", sid, ts) :
                 sid \in { SomeId(<<"3001">>), SomeId(<<"TBM", "BP", "3002", "LOC">>), NoId },
                 ts \in StopTimes }
    IN  { <<>> } \cup { << <<u>> >> : u \in U }

StopsArgs ==
    { [ stops_data |-> << <<"3001">>, <<"3002">> >>,
        alerts |-> << [ id |-> "alert", stop_ids |-> { <<"3001">> } ] >>,
        real_time |-> rt, trip_updates |-> tu ] :
        rt \in VehicleLists, tu \in TripUpdateLists }

\* reads of the stops while the real-time lists vary
NextStops ==
    \/ InitFetch(InitOutcomes(StaticPlain, DynPlain))
    \/ InitFinish
    \/ Advance(StopsInstant)
    \/ ReadStops(StopsArgs)
    \/ BuildStops
SpecStops == Init /\ [][NextStops]_vars

\* the longest list of stop times of the stop in the urban schedule
MaxRows == 2

\* a service that runs from Monday to Friday all year, one that never runs
StudyCalendar ==
    [ service \in {"weekdays", "never"} |->
        [ days |-> IF service = "weekdays"
                     THEN <<TRUE, TRUE, TRUE, TRUE, TRUE, FALSE, FALSE>>
                     ELSE <<FALSE, FALSE, FALSE, FALSE, FALSE, FALSE, FALSE>>,
          start_date |-> 20260101, end_date |-> 20261231 ] ]

\* two trips that differ only by their id, one without headsign, one of the
\* service that never runs
StudyTrips ==
    [ trip \in {"t1", "t2", "t3", "t4"} |->
        [ route_id |-> <<"TBM", "Line", "A">>,
          service_id |-> IF trip = "t4" THEN "never" ELSE "weekdays",
          trip_headsign |-> IF trip = "t3" THEN NoStr ELSE SomeStr("Centre") ] ]

\* stop times of known and unknown trips, at a time of the day, at a time
\* after midnight of the service day, at a time that does not parse
StudyRows ==
    { [ trip_id |-> trip, arrival_time |-> time ] :
        trip \in {"t1", "t2", "t3", "t4", "t9"},
        time \in { <<"08", "15", "00">>, <<"25", "30", "00">>, <<"08", "15">> } }

StudySchedules ==
    { [ tbm_gtfs_cache |->
          [ stop_times |-> [ stop \in {"3001"} |-> rows ], trips |-> StudyTrips,
            calendar |-> StudyCalendar, calendar_dates |-> EmptyMap,
            routes |-> [ route \in { <<"TBM", "Line", "A">> } |-> "FF0000" ] ],
        transgironde_gtfs_cache |->
          [ stop_times |-> EmptyMap, trips |-> EmptyMap, calendar |-> EmptyMap,
            calendar_dates |-> EmptyMap, routes |-> EmptyMap ],
        sncf_gtfs_cache |->
          [ stop_times |-> [ stop \in {"3001"} |->
                               << [ trip_id |-> "t1", arrival_time |-> <<"08", "15", "00">> ] >> ],
            trips |-> [ trip \in {"t1"} |->
                          [ route_id |-> <<"SNCF", "TER">>, service_id |-> "weekdays",
                            trip_headsign |-> SomeStr("Centre") ] ],
            calendar |-> StudyCalendar,
            calendar_dates |-> [ service \in {"weekdays"} |->
                                   << [ date |-> 20261225, exception_type |-> 2 ] >> ],
            routes |-> EmptyMap ] ] :
        rows \in UNION { [ 1..n -> StudyRows ] : n \in 0..MaxRows } }

\* a Tuesday, at 08:15:00 and one second later, at 21:59:59 and at 22:00:00
StudyClocks ==
    { [ today_date |-> 20261103, weekday_num |-> 1, current_seconds |-> seconds ] :
        seconds \in { 29700, 29701, LATE_EVENING_THRESHOLD - 1, LATE_EVENING_THRESHOLD } }

ArrivalsArgs ==
    { [ stop_id |-> "3001", cache |-> c, max_results |-> n, local |-> l ] :
        c \in StudySchedules, n \in {1, MaxRows}, l \in StudyClocks }

\* requests for the scheduled arrivals of a stop
NextArrivals ==
    \/ InitFetch(InitOutcomes(StaticPlain, DynPlain))
    \/ InitFinish
    \/ ReadSchedules(ArrivalsArgs)
    \/ GetScheduledArrivals
SpecArrivals == Init /\ [][NextArrivals]_vars

\* the longest list of calendar_dates exceptions of the service
MaxExceptions == 2

\* the date the local clock of the study shows, a Monday
StudyDate == 20261102

\* weekly calendars of the service: every day, Monday only, or no day; in a
\* period that holds the date, begins or ends on it, or ended the day before
ServiceCalendars ==
    { [ days |-> d, start_date |-> p[1], end_date |-> p[2] ] :
        d \in { <<TRUE, TRUE, TRUE, TRUE, TRUE, TRUE, TRUE>>,
                <<TRUE, FALSE, FALSE, FALSE, FALSE, FALSE, FALSE>>,
                <<FALSE, FALSE, FALSE, FALSE, FALSE, FALSE, FALSE>> },
        p \in { <<20260101, 20261231>>, <<StudyDate, 20261231>>,
                <<20260101, StudyDate>>, <<20260101, StudyDate - 1>> } }

\* exceptions of the service: for the date or for another one, of type 1
\* (added) or 2 (removed)
ServiceExceptions ==
    LET E == { [ date |-> d, exception_type |-> t ] :
                 d \in { StudyDate, StudyDate + 1 }, t \in {1, 2} }
    IN  UNION { [ 1..n -> E ] : n \in 0..MaxExceptions }

\* the schedules with one stop time, of trip "t1" of the service "s"
ServiceSchedules ==
    LET Tables(cal, dates) ==
          [ stop_times |-> [ stop \in {"3001"} |->
                               << [ trip_id |-> "t1", arrival_time |-> <<"08", "15", "00">> ] >> ],
            trips |-> [ trip \in {"t1"} |->
                          [ route_id |-> <<"TBM", "Line", "A">>, service_id |-> "s",
                            trip_headsign |-> SomeStr("Centre") ] ],
            calendar |-> cal, calendar_dates |-> dates, routes |-> EmptyMap ]
        Nothing == [ stop_times |-> EmptyMap, trips |-> EmptyMap, calendar |-> EmptyMap,
                     calendar_dates |-> EmptyMap, routes |-> EmptyMap ]
        Calendars == { EmptyMap } \cup { [ service \in {"s"} |-> c ] : c \in ServiceCalendars }
        Dates == { EmptyMap } \cup { [ service \in {"s"} |-> x ] : x \in ServiceExceptions }
    IN  { [ tbm_gtfs_cache |-> Tables(cal, dates), transgironde_gtfs_cache |-> Nothing,
            sncf_gtfs_cache |-> Nothing ] : cal \in Calendars, dates \in Dates }

\* on the Monday of the study or, by the weekday only, a Tuesday, at 08:15:00
ServiceArgs ==
    { [ stop_id |-> "3001", cache |-> c, max_results |-> 1,
        local |-> [ today_date |-> StudyDate, weekday_num |-> w, current_seconds |-> 29700 ] ] :
        c \in ServiceSchedules, w \in {0, 1} }

\* requests for the arrivals of a stop while the calendars of the service vary
NextService ==
    \/ InitFetch(InitOutcomes(StaticPlain, DynPlain))
    \/ InitFinish
    \/ ReadSchedules(ServiceArgs)
    \/ GetScheduledArrivals
SpecService == Init /\ [][NextService]_vars

\* the longest stop_times.txt of the archives of the study
MaxStopTimes == 2

\* all the orders in which the entries of a HashMap can be iterated
Orders(keys) ==
    { order \in [ 1..Cardinality(keys) -> keys ] :
        \A i, j \in 1..Cardinality(keys) : i # j => order[i] # order[j] }

\* the trips of the archives: two routes, one of them without a color in
\* routes.txt; the routes kept, with their color
ViewTrips ==
    [ trip \in {"t1", "t3"} |->
        [ route_id |-> IF trip = "t3" THEN <<"X", "Line", "7">> ELSE <<"X", "Line", "99">>,
          service_id |-> "weekdays", trip_headsign |-> SomeStr("Centre") ] ]
ViewRoutes == [ route \in { <<"X", "Line", "99">> } |-> "FF0000" ]

\* archives whose stops.txt is one of the lists given, and whose
\* stop_times.txt has up to MaxStopTimes rows, of known and unknown trips
ViewArchives(stop_lists, ids) ==
    LET Rows == { [ trip_id |-> trip, stop_id |-> id, arrival_time |-> <<"08", "15", "00">> ] :
                    trip \in {"t1", "t3", "t9"}, id \in ids }
    IN  { [ stops |-> stops, stop_times |-> rows, trips |-> ViewTrips, routes |-> ViewRoutes,
            calendar |-> StudyCalendar, calendar_dates |-> EmptyMap,
            agencies |-> [ agency \in {"calibus"} |-> "Calibus (Libourne)" ],
            route_agencies |-> EmptyMap ] :
            stops \in stop_lists, rows \in UNION { [ 1..n -> Rows ] : n \in 0..MaxStopTimes } }

\* a row of stops.txt
StopRow(stop_id, location_type) ==
    [ stop_id |-> stop_id, location_type |-> location_type, lat |-> "44.84" ]

\* the regional archives: one stop, whose id the urban network has too
RegionalArchives ==
    ViewArchives({ << StopRow(<<"3001">>, "0") >> }, { <<"3001">> })

\* the national-rail archives: a stop whose id holds the code after a '-',
\* or a stop whose id is the code, with or without its parent station
RailArchives ==
    ViewArchives({ << StopRow(<<"StopPoint", "OCETGV INOUI-87192039">>, "0") >>,
                   << StopRow(<<"87192039">>, "0"),
                      StopRow(<<"StopArea", "OCE87192039">>, "1") >> },
                 { <<"StopPoint", "OCETGV INOUI-87192039">>, <<"87192039">> })

\* an alert for the stops and routes of the three operators, one for none
ViewAlerts ==
    << [ id |-> "works", stop_ids |-> { <<"3001">>, <<"87192039">> },
         route_ids |-> { <<"A">>, <<"X", "Line", "99">> } ],
       [ id |-> "strike", stop_ids |-> {}, route_ids |-> {} ] >>

\* the urban schedule: one stop time of a trip of route "60" at stop "3001"
ViewUrbanCache ==
    [ stop_times |-> [ stop \in { <<"3001">> } |->
                         << [ trip_id |-> "t1", arrival_time |-> <<"08", "15", "00">> ] >> ],
      trips |-> [ trip \in {"t1"} |->
                    [ route_id |-> <<"60">>, service_id |-> "weekdays",
                      trip_headsign |-> SomeStr("Centre") ] ],
      calendar |-> StudyCalendar, calendar_dates |-> EmptyMap,
      routes |-> [ route \in { <<"60">> } |-> "00B1EB" ] ]

\* the caches initialize_cache makes of the archives: the urban line "60"
\* is known by its number or by the letter "A"
ViewCaches ==
    { LET tg == parse_transgironde_from_cache(transgironde_gtfs_cache(regional), tg_iter)
          sncf == parse_sncf_from_cache(sncf_gtfs_cache(rail), sncf_iter)
      IN  [ tbm_stops_metadata |-> << <<"3001">> >>,
            tbm_lines_metadata |-> << [ line_ref |-> <<"bordeaux", "Line", "60", "LOC">>,
                                        code |-> code ] >>,
            tbm_gtfs_cache |-> ViewUrbanCache,
            transgironde_stops |-> tg.stops, transgironde_lines |-> tg.lines,
            transgironde_gtfs_cache |-> tg.cache,
            sncf_stops |-> sncf.stops, sncf_lines |-> sncf.lines,
            sncf_gtfs_cache |-> sncf.cache,
            alerts |-> ViewAlerts, real_time |-> <<>>, trip_updates |-> <<>> ] :
        code \in { <<"60">>, <<"A">> },
        regional \in RegionalArchives, tg_iter \in Orders(DOMAIN ViewRoutes),
        rail \in RailArchives, sncf_iter \in Orders(DOMAIN ViewRoutes) }

\* requests for the arrivals at the stops of the view, a Tuesday at 08:15:00
ViewRequests ==
    { [ stop_id |-> id, cache |-> c, max_results |-> MaxStopTimes,
        local |-> [ today_date |-> 20261103, weekday_num |-> 1, current_seconds |-> 29700 ] ] :
        c \in ViewCaches, id \in { <<"3001">>, <<"87192039">> } }

\* reads of the network, and of the arrivals at a stop, on caches made of
\* varying archives
NextView ==
    \/ InitFetch(InitOutcomes(StaticPlain, DynPlain))
    \/ InitFinish
    \/ Advance(StopsInstant)
    \/ ReadNetwork(ViewCaches)
    \/ ToNetworkData
    \/ ReadSchedules(ViewRequests)
    \/ GetScheduledArrivals
SpecView == Init /\ [][NextView]_vars

\* the largest number of segments of the references of the study
MaxSegments == 4

\* references of up to MaxSegments segments
RefsOver(segments) == UNION { [ 1..n -> segments ] : n \in 1..MaxSegments }

\* stop references with and without the "BP:" marker, line references, and
\* national-rail stop ids with and without a '-'
StudyRefs ==
    { [ fn |-> "extract_stop_id", id |-> id ] :
        id \in RefsOver({"TBM", "BP", "12BP", "12345"})
                 \cup { <<"TBM", "BP", "12345", "extra">> } }
      \cup { [ fn |-> "extract_line_id", id |-> id ] :
               id \in RefsOver({"A", "42"}) \cup { <<"A", "B", "42", "C">> } }
      \cup { [ fn |-> "extract_sncf_stop_id", id |-> id ] :
               id \in { <<"StopPoint", "OCETGV INOUI-87192039">>,
                        <<"StopPoint", "OCETrain TER-71793150">>,
                        <<"87192039">>, <<"a-b-c">>, <<"a-b-c", "x">> } }

\* calls of the functions that extract identifiers
NextRefs ==
    \/ InitFetch(InitOutcomes(StaticPlain, DynPlain))
    \/ InitFinish
    \/ ReadRef(StudyRefs)
    \/ ExtractStopId
    \/ ExtractLineId
    \/ ExtractSncfStopId
SpecRefs == Init /\ [][NextRefs]_vars

\* static refreshes as time passes: at the start, and when the urban and
\* the other cache files written at the start expire
ReloadInstants == { d * SECONDS_PER_DAY - e :
                      d \in {TBM_MAX_AGE_DAYS, REGIONAL_MAX_AGE_DAYS}, e \in 0..Slack }
NextReload ==
    \/ InitFetch(InitOutcomes(StaticPlain, DynPlain))
    \/ InitFinish
    \/ \E t \in ReloadInstants : Advance(t)
    \/ FetchDiscovery
    \/ LoadNext
    \/ ReturnCached
    \/ DownloadArchive(One, Coordinates)
SpecReload == Init /\ [][NextReload]_vars

\* the refreshing tasks and the read handlers, with closures that may panic
NextPoison ==
    \/ Step(Refreshers, Readers, StaticPlain, DynPlain, {MaxTime})
    \/ \E p \in Refreshers : Panic(p)
    \/ \E p \in Refreshers : LockPoisoned(p)
    \/ \E r \in Readers : ReadPoisoned(r)
    \/ \E r \in Readers : RespondFailure(r)
SpecPoison == Init /\ [][NextPoison]_vars

\* the same tasks and handlers under fair scheduling: a thread that can take
\* a step of its refresh or of its response takes it (every fetch returns,
\* with data or with an error, at the latest when its timeout expires), and
\* a thread that asks for the lock again and again while it is free gets it
FairRefresh(p) ==
    /\ SF_vars(Acquire(p))
    /\ WF_vars(LockPoisoned(p))
    /\ WF_vars(FetchDynamic(p, DynPlain))
    /\ WF_vars(CommitDynamic(p))
    /\ WF_vars(FetchStatic(p, StaticPlain))
    /\ WF_vars(CommitStatic(p))
    /\ WF_vars(Release(p))
FairRead(r) ==
    /\ SF_vars(ReadLock(r))
    /\ WF_vars(Respond(r))
    /\ WF_vars(ReadPoisoned(r))
    /\ WF_vars(RespondFailure(r))
SpecFair ==
    /\ Init /\ [][NextPoison]_vars
    /\ \A p \in Refreshers : FairRefresh(p)
    /\ \A r \in Readers : FairRead(r)

---------------------------------------------------------------------------
(* Steps and positions the properties speak about *)

\* task p is inside smart_refresh, between taking the guard and dropping it
InRefresh(p) == pc[p] \in {"dyn_fetch", "dyn_commit", "sta_fetch", "sta_commit", "done"}

\* task p is blocked in the network fetches / archive parses of a refresh
Fetching(p) == pc[p] \in {"dyn_fetch", "sta_fetch"}

\* the step in which refresh_dynamic_data of task p stores its results
DynamicStored(p) == pc[p] = "dyn_commit" /\ pc'[p] # "dyn_commit"

\* the step in which refresh_static_data of task p stores its results
StaticStored(p) == pc[p] = "sta_commit" /\ pc'[p] # "sta_commit"

UrbanFields == {"tbm_stops_metadata", "tbm_lines_metadata", "tbm_gtfs_cache"}
RegionalFields == {"transgironde_stops", "transgironde_lines", "transgironde_gtfs_cache"}
RailFields == {"sncf_stops", "sncf_lines", "sncf_gtfs_cache"}

\* the fields F of the cache are left as they were / all hold payload v
Kept(F) == \A f \in F : cache'[f] = cache[f]
Become(F, v) == \A f \in F : cache'[f] = v
Hold(F, v) == \A f \in F : cache[f] = v

\* the entries of a real-time list that came from one feed
FromFeed(list, feed) ==
    LET keep(e) == e.feed = feed IN SelectSeq(list, keep)
Elems(list) == { list[i] : i \in 1..Len(list) }

AllFetched(o) ==
    \A f \in {"alerts", "vehicles", "trips", "sncf_alerts", "sncf_trips"} : IsOk(o[f])

---------------------------------------------------------------------------
(* Properties *)

\* C1: every smart_refresh runs the dynamic refresh first, and runs the static
\* refresh afterwards exactly when more than 3600 s have passed since
\* last_static_update (3600 s exactly is not enough); as initialize_cache
\* stamps last_static_update at startup, no static refresh runs within the
\* first hour.
C1_StaticOnlyAfterMaxAge ==
    [][\A p \in Refreshers :
        /\ (pc[p] = "lock" /\ pc'[p] # "lock") => pc'[p] = "dyn_fetch"
        /\ (pc[p] = "dyn_fetch" /\ pc'[p] # "dyn_fetch") => pc'[p] = "dyn_commit"
        /\ DynamicStored(p) =>
             /\ cache'.last_dynamic_update = now
             /\ pc'[p] \in {"sta_fetch", "done"}
             /\ pc'[p] = "sta_fetch" <=> now - cache.last_static_update > STATIC_DATA_MAX_AGE
        /\ (pc'[p] = "sta_fetch" /\ pc[p] # "sta_fetch") =>
             (pc[p] = "dyn_commit" /\ now > STATIC_DATA_MAX_AGE)
      ]_vars

C1_Witness ==
    \E p \in Refreshers :
        /\ pc[p] = "sta_fetch"
        /\ now - cache.last_static_update = STATIC_DATA_MAX_AGE + 1
        /\ cache.last_dynamic_update = now

\* C2: when refresh_static_data (and so smart_refresh) returns an error, every
\* field of the cache has the value it had before the call.
C2_FailedRefreshLeavesCache ==
    [][\A p \in Refreshers :
        (StaticStored(p) /\ result'[p] = "Err") => cache' = cache
      ]_vars

\* C3: a failed static refresh leaves last_static_update as it was, the next
\* smart_refresh after a failed one attempts the static refresh again, and the
\* failure is only followed by a success through a static refresh that stamps
\* last_static_update.
C3_FailedStaticIsRetried ==
    [][\A p \in Refreshers :
        /\ (StaticStored(p) /\ result'[p] = "Err") =>
             /\ cache'.last_static_update = cache.last_static_update
             /\ now' - cache'.last_static_update > STATIC_DATA_MAX_AGE
        /\ (result[p] = "Err" /\ DynamicStored(p)) => pc'[p] = "sta_fetch"
        /\ (result[p] = "Err" /\ result'[p] # "Err") =>
             /\ StaticStored(p)
             /\ result'[p] = "Ok"
             /\ cache'.last_static_update = now
      ]_vars

C3_Witness ==
    \E p \in Refreshers :
        /\ pc[p] = "sta_fetch"
        /\ result[p] = "Err"

\* C4: in refresh_static_data, when the load of the regional or of the
\* national-rail operator fails, that operator's stops, lines and SourceCache
\* keep their values, what was loaded for the other operators is stored, the
\* call returns Ok and last_static_update is stamped.
C4_SecondaryFailureKeepsSnapshot ==
    [][\A p \in Refreshers :
        LET o == fetched[p].sta IN
        (StaticStored(p) /\ (IsErr(o.regional) \/ IsErr(o.sncf))) =>
            /\ IsErr(o.regional) => Kept(RegionalFields)
            /\ IsOk(o.regional) => Become(RegionalFields, o.regional.v)
            /\ IsErr(o.sncf) => Kept(RailFields)
            /\ IsOk(o.sncf) => Become(RailFields, o.sncf.v)
            /\ cache'.tbm_stops_metadata = o.stops.v
            /\ cache'.tbm_lines_metadata = o.lines.v
            /\ IsOk(o.tbm_gtfs) => cache'.tbm_gtfs_cache = o.tbm_gtfs.v
            /\ result'[p] = "Ok"
            /\ cache'.last_static_update = now
      ]_vars

C4_Witness ==
    \E p \in Refreshers :
        LET o == fetched[p].sta IN
        /\ pc[p] = "done"
        /\ IsErr(o.regional) /\ IsOk(o.sncf)
        /\ \E v \in Wide : Hold(RegionalFields, v)
        /\ Hold(RailFields, o.sncf.v)
        /\ result[p] = "Ok"
        /\ cache.last_static_update = now

\* C5: in a static refresh after startup, a failure of the urban discovery
\* fetch (stops or lines) leaves the urban fields as they were, does not keep
\* the regional and national-rail data from being reloaded in the same call,
\* and does not make the refresh fail.
C5_DiscoveryFailureIsSoft ==
    [][\A p \in Refreshers :
        LET o == fetched[p].sta IN
        (StaticStored(p) /\ (IsErr(o.stops) \/ IsErr(o.lines))) =>
            /\ Kept(UrbanFields)
            /\ o.regional.st # "skipped"
            /\ o.sncf.st # "skipped"
            /\ result'[p] # "Err"
      ]_vars

\* C6: in refresh_dynamic_data, the entries the cache held from a feed whose
\* fetch failed are still in the cache afterwards, and the entries of a feed
\* that was fetched are exactly the newly fetched ones.
C6_FailedFeedKeepsEntries ==
    [][\A p \in Refreshers :
        LET o == fetched[p].dyn
            ok(list, res, feed) ==
                /\ IsErr(res) => Elems(FromFeed(cache[list], feed)) \subseteq Elems(cache'[list])
                /\ IsOk(res) => FromFeed(cache'[list], feed) = res.v
        IN  DynamicStored(p) =>
                /\ ok("alerts", o.alerts, "tbm_alerts")
                /\ ok("real_time", o.vehicles, "tbm_vehicles")
                /\ ok("trip_updates", o.trips, "tbm_trips")
                /\ ok("alerts", o.sncf_alerts, "sncf_alerts")
                /\ ok("trip_updates", o.sncf_trips, "sncf_trips")
      ]_vars

\* C7: after a refresh_dynamic_data whose five fetches all succeed, the alert
\* list is the urban alerts followed by the national-rail alerts, the
\* trip-update list the urban trip updates followed by the national-rail ones,
\* and the vehicle list the urban vehicle positions; every call stamps
\* last_dynamic_update and returns Ok, whatever the fetches returned.
C7_DynamicMerge ==
    [][\A p \in Refreshers :
        LET o == fetched[p].dyn IN
        DynamicStored(p) =>
            /\ AllFetched(o) =>
                 /\ cache'.alerts = o.alerts.v \o o.sncf_alerts.v
                 /\ cache'.trip_updates = o.trips.v \o o.sncf_trips.v
                 /\ cache'.real_time = o.vehicles.v
            /\ cache'.last_dynamic_update = now
            /\ pc'[p] \in {"sta_fetch", "done"}
            /\ pc'[p] = "done" => result'[p] = "Ok"
      ]_vars

C7_Witness ==
    \E p \in Refreshers :
        LET o == fetched[p].dyn IN
        /\ pc[p] \in {"sta_fetch", "done"}
        /\ AllFetched(o)
        /\ cache.alerts = o.alerts.v \o o.sncf_alerts.v
        /\ Len(cache.alerts) = 2
        /\ cache.alerts[1].feed = "tbm_alerts" /\ cache.alerts[2].feed = "sncf_alerts"
        /\ cache.trip_updates = o.trips.v \o o.sncf_trips.v
        /\ cache.last_dynamic_update = now

C9_MutualExclusion ==
    /\ \A p \in Refreshers : InRefresh(p) => lock = p
    /\ \A r \in Readers : pc[r] = "read" => lock = r
    /\ Cardinality({ p \in Refreshers : InRefresh(p) } \cup { r \in Readers : pc[r] = "read" }) <= 1
    /\ \A r \in Readers : pc[r] = "read" => \A p \in Refreshers : ~InRefresh(p)

C9_Witness ==
    \E r \in Readers, p \in Refreshers, q \in Refreshers :
        /\ pc[r] = "lock"
        /\ pc[q] = "lock"
        /\ pc[p] = "sta_commit"

\* C10: the lock is not held while a refresh is fetching or parsing, and no
\* read request waits for the lock while a refresh is fetching.
C10_NoLockWhileFetching ==
    \A p \in Refreshers :
        Fetching(p) => (lock # p /\ \A r \in Readers : ~(pc[r] = "lock" /\ lock = p))

---------------------------------------------------------------------------
---------------------------------------------------------------------------
\* the periodic refresh has just failed or panicked and its task is not inside
\* a new attempt
TimerFailed ==
    /\ result["timer"] \in {"Err", "Panicked"}
    /\ pc["timer"] \notin {"lock", "dyn_fetch", "dyn_commit", "sta_fetch", "sta_commit", "done"}

\* C12: a periodic refresh that returned an error or panicked does not end
\* the loop of data_refresh_task: after every failed or panicked refresh the
\* task is back at interval.tick() and a new refresh attempt follows.
C12_LoopSurvivesFailure ==
    [](TimerFailed => (pc["timer"] = "idle" /\ <>(pc["timer"] = "lock")))

\* the periodic refresh panicked, and the task has started its next attempt
C12_Witness ==
    /\ result["timer"] = "Panicked"
    /\ poisoned
    /\ pc["timer"] = "lock"

---------------------------------------------------------------------------
\* whole seconds from the cached_at of c to now, a cached_at ahead of the
\* clock counting as no time at all
Elapsed(c, t) == IF t >= c.cached_at THEN t - c.cached_at ELSE 0

\* the GTFSCache values that the cache files on disk hold
StoredCaches ==
    { from_str(disk[p].text).v :
        p \in { q \in CachePaths : disk[q].kind = "text" /\ from_str(disk[q].text).some } }

AgeThresholds == {0, 15, 30}

\* C13: for every stored cache, current time and max age, is_expired is true
\* iff the whole days elapsed since cached_at (nothing when cached_at is in
\* the future) are at least the max age; with max age 15 it is false
\* 15*86400-1 seconds after cached_at and true at exactly 15*86400; and once
\* true for a cache it stays true as the clock advances.
C13_ExpiryByWholeDays ==
    /\ [](\A c \in StoredCaches :
            /\ \A m \in AgeThresholds :
                 is_expired(c, m, now) <=> (Elapsed(c, now) \div 86400 >= m)
            /\ c.cached_at > now => ~is_expired(c, 15, now)
            /\ Elapsed(c, now) = 15 * 86400 - 1 => ~is_expired(c, 15, now)
            /\ Elapsed(c, now) = 15 * 86400 => is_expired(c, 15, now))
    /\ [][ \A c \in StoredCaches, m \in AgeThresholds :
             is_expired(c, m, now) => is_expired(c, m, now') ]_vars

\* the urban cache file is exactly 15 days old and its load returned nothing
C13_Witness ==
    /\ \E c \in StoredCaches :
         c.source = "TBM" /\ now - c.cached_at = 15 * 86400
    /\ loaded.source = "TBM"
    /\ ~loaded.res.some

---------------------------------------------------------------------------
\* C14: GTFSCache::load of an operator returns nothing when the operator's
\* cache file is absent, unreadable, unparsable or expired, and the stored
\* cache in every other case; the max age is 15 days for the urban operator
\* and 30 days for the regional and the national-rail operator.
C14_LoadReturnsStoredUnlessUnusable ==
    [][ (loaded' # loaded /\ loaded'.source \in Sources) =>
          LET s == loaded'.source
              f == disk[cache_path(s)]
              m == IF s = "TBM" THEN 15 ELSE 30
              unparsable == f.text.syntax # "json" \/ f.text.stops = "null"
          IN  IF \/ f.kind = "absent"
                 \/ f.kind = "unreadable"
                 \/ unparsable
                 \/ Elapsed(f.text, now) \div 86400 >= m
                THEN ~loaded'.res.some
                ELSE /\ loaded'.res.some
                     /\ to_string_pretty(loaded'.res.v) = f.text
      ]_vars

\* the national-rail cache was loaded from a file more than 15 days old
C14_Witness ==
    /\ loaded.source = "SNCF"
    /\ loaded.res.some
    /\ Elapsed(loaded.res.v, now) >= 15 * 86400

---------------------------------------------------------------------------
\* C15: for every GTFSCache value c, right after a successful c.save(),
\* load(c.source, m) with a max age m under which c is not expired returns a
\* cache equal to c.
C15_SaveLoadRoundTrip ==
    [][ \A s \in Sources, coord \in Coordinates, ver \in One :
          LET c == GTFSCache(s, now, ver, coord)
          IN  (/\ loaded.source = s
               /\ ~loaded.res.some
               /\ disk' # disk
               /\ disk' = save(c, disk))
                => \A m \in {15, 30} :
                     ~is_expired(c, m, now') => load(c.source, m, now', disk') = Some(c)
      ]_vars

---------------------------------------------------------------------------
\* build_stops has returned
StopsBuilt == ret.fn = "build_stops"

\* the real-time entries attached to the i-th stop of the result
Attached(i) == ret.stops[i].real_time

\* the vehicle positions given to build_stops that name the stop id
VehiclesAt(id) ==
    LET Here(rt) == rt.stop_id.some /\ rt.stop_id.v = id
    IN  SelectSeq(args.real_time, Here)

\* the stop_time_updates given to build_stops that name the stop id, as it is
\* or inside a longer identifier
UpdatesAt(id) ==
    LET Here(stu) ==
          /\ stu.stop_id.some
          /\ stu.stop_id.v = id \/ extract_stop_id(stu.stop_id.v).v = id
    IN  SelectSeq(stop_time_updates(args.trip_updates), Here)

\* the entry is dated more than 120 seconds before the evaluation instant
TooOld(timestamp) == timestamp.some /\ timestamp.v < ret.at - 120

\* C16: every real-time entry attached to a stop by build_stops has a stop_id
\* equal to the id of that stop, and none carries a timestamp earlier than the
\* evaluation instant minus 120 seconds; a vehicle position of the stop dated
\* exactly 120 seconds before the evaluation instant is attached (when the
\* list of the stop is not cut to its maximum length).
C16_AttachedMatchAndFresh ==
    StopsBuilt =>
      \A i \in DOMAIN ret.stops :
        /\ \A k \in 1..Len(Attached(i)) :
             /\ Attached(i)[k].stop_id.some
             /\ Attached(i)[k].stop_id.v = ret.stops[i].stop_id
             /\ ~TooOld(Attached(i)[k].timestamp)
        /\ Len(Attached(i)) < 10 =>
             \A v \in Elems(VehiclesAt(ret.stops[i].stop_id)) :
               (v.timestamp.some /\ v.timestamp.v = ret.at - 120)
                 => v \in Elems(Attached(i))

\* a stop has an entry dated exactly at the cutoff, while a position of the
\* same stop one second older and a position of another stop were given too
C16_Witness ==
    /\ StopsBuilt
    /\ ret.at = StopsInstant
    /\ \E k \in 1..Len(Attached(1)) :
         Attached(1)[k].timestamp = SomeTime(ret.at - 120)
    /\ \E v \in Elems(VehiclesAt(ret.stops[1].stop_id)) : TooOld(v.timestamp)
    /\ VehiclesAt(ret.stops[2].stop_id) # <<>>

---------------------------------------------------------------------------
\* C17: a vehicle position or a trip-update stop-time entry that matches a
\* stop is left out of the stop's list by the staleness rule only when it
\* carries a timestamp more than 120 seconds in the past: one that carries no
\* timestamp, or a more recent one, is attached (when the list of the stop is
\* not cut to its maximum length).
C17_OnlyStaleEntriesDropped ==
    StopsBuilt =>
      \A i \in DOMAIN ret.stops :
        Len(Attached(i)) < 10 =>
          /\ \A v \in Elems(VehiclesAt(ret.stops[i].stop_id)) :
               ~TooOld(v.timestamp) => v \in Elems(Attached(i))
          /\ \A u \in Elems(UpdatesAt(ret.stops[i].stop_id)) :
               ~TooOld(u.time) =>
                 \E e \in Elems(Attached(i)) :
                   e.vehicle_id = "scheduled" /\ e.trip_id = u.trip_id /\ e.timestamp = u.time

---------------------------------------------------------------------------
\* the entries that qualify for the i-th stop: the positions and updates that
\* match it and pass the staleness rule, before sorting
Qualified(i) ==
    LET id == ret.stops[i].stop_id
        Fresh(rt) == ~TooOld(rt.timestamp)
        FreshDated(stu) == stu.time.some /\ ~TooOld(stu.time)
    IN  SelectSeq(VehiclesAt(id), Fresh)
          \o scheduled_entries(SelectSeq(UpdatesAt(id), FreshDated), id)

Count(list, e) == Cardinality({ k \in 1..Len(list) : list[k] = e })

\* e comes no later than d in the order by timestamp with undated entries last
NoLater(e, d) ==
    \/ ~d.timestamp.some
    \/ e.timestamp.some /\ e.timestamp.v <= d.timestamp.v

\* C18: the real-time list of every stop made by build_stops is sorted
\* non-decreasing by timestamp with the entries lacking a timestamp last, has
\* at most 10 entries, and when more than 10 entries qualified it holds the 10
\* first of that order.
C18_SortedUndatedLastAtMostTen ==
    StopsBuilt =>
      \A i \in DOMAIN ret.stops :
        /\ \A j, k \in 1..Len(Attached(i)) :
             j < k => /\ NoLater(Attached(i)[j], Attached(i)[k])
                      /\ ~Attached(i)[j].timestamp.some => ~Attached(i)[k].timestamp.some
        /\ Len(Attached(i)) <= 10
        /\ Len(Attached(i)) = IF Len(Qualified(i)) > 10 THEN 10 ELSE Len(Qualified(i))
        /\ \A e \in Elems(Attached(i)) :
             /\ Count(Attached(i), e) <= Count(Qualified(i), e)
             /\ \A d \in Elems(Qualified(i)) :
                  Count(Attached(i), d) < Count(Qualified(i), d) => NoLater(e, d)

---------------------------------------------------------------------------
\* get_scheduled_arrivals has returned
ArrivalsReturned == ret.fn = "get_scheduled_arrivals"

\* the arrivals pushed by the loop over the three schedules, sorted by
\* arrival time
SortedArrivals ==
    sort_by_arrival_time(
        arrivals_of(args.cache.tbm_gtfs_cache, "TBM", args.stop_id, args.local)
          \o arrivals_of(args.cache.transgironde_gtfs_cache, "TransGironde", args.stop_id,
                         args.local)
          \o arrivals_of(args.cache.sncf_gtfs_cache, "SNCF", args.stop_id, args.local))

\* (line code, arrival time, destination), no destination counting as ""
KeyOf(arrival) ==
    <<arrival.line_code, arrival.arrival_time,
      IF arrival.destination.some THEN arrival.destination.v ELSE "">>

\* C19: no two results of get_scheduled_arrivals have the same (line code,
\* arrival time, destination) key, also when they come from different trips;
\* of the arrivals with one key the result holds the first of the list sorted
\* by arrival time; and the duplicates are removed before the list is cut to
\* max_results, so the result has max_results entries whenever that many
\* different keys exist.
C19_DedupBeforeTruncate ==
    ArrivalsReturned =>
      LET out == ret.arrivals
          keys == { KeyOf(SortedArrivals[i]) : i \in 1..Len(SortedArrivals) }
      IN  /\ \A i, j \in 1..Len(out) : i < j => KeyOf(out[i]) # KeyOf(out[j])
          /\ \A i \in 1..Len(out) :
               \E k \in 1..Len(SortedArrivals) :
                 /\ SortedArrivals[k] = out[i]
                 /\ \A j \in 1..(k - 1) : KeyOf(SortedArrivals[j]) # KeyOf(out[i])
          /\ Len(out) = IF Cardinality(keys) > args.max_results
                          THEN args.max_results ELSE Cardinality(keys)

\* two trips gave the same key and a third arrival another one: the result
\* has one entry for each key, max_results entries in all
C19_Witness ==
    /\ ArrivalsReturned
    /\ \E i, j \in 1..Len(SortedArrivals) :
         /\ i < j
         /\ KeyOf(SortedArrivals[i]) = KeyOf(SortedArrivals[j])
         /\ SortedArrivals[i].trip_id # SortedArrivals[j].trip_id
         /\ j <= args.max_results
    /\ Len(SortedArrivals) > args.max_results
    /\ Len(ret.arrivals) = args.max_results
    /\ args.max_results > 1

---------------------------------------------------------------------------
\* the stop times of the urban schedule at the requested stop that belong to
\* a known trip of a service active today and whose arrival time parses
ActiveStopTimes ==
    LET c == args.cache.tbm_gtfs_cache
        Active(st) ==
          /\ st.trip_id \in DOMAIN c.trips
          /\ is_service_active(c.trips[st.trip_id].service_id, args.local.today_date,
                               args.local.weekday_num, c.calendar, c.calendar_dates)
          /\ parse_gtfs_time(st.arrival_time).some
    IN  Elems(SelectSeq(c.stop_times[args.stop_id], Active))

\* the result has an entry for the stop time
Included(st) ==
    \E i \in 1..Len(ret.arrivals) :
      /\ ret.arrivals[i].operator = "TBM"
      /\ ret.arrivals[i].arrival_time = st.arrival_time
      /\ ret.arrivals[i].destination = args.cache.tbm_gtfs_cache.trips[st.trip_id].trip_headsign

---------------------------------------------------------------------------
\* the exceptions of calendar_dates for the service of the only stop time,
\* and those of them for today's date
ExceptionsOfService ==
    IF "s" \in DOMAIN args.cache.tbm_gtfs_cache.calendar_dates
      THEN args.cache.tbm_gtfs_cache.calendar_dates["s"] ELSE <<>>
ExceptionsToday ==
    { e \in Elems(ExceptionsOfService) : e.date = args.local.today_date }

\* the weekly calendar holds the service, today is inside its period and the
\* flag of today's weekday is set
WeeklyActive ==
    /\ "s" \in DOMAIN args.cache.tbm_gtfs_cache.calendar
    /\ LET cal == args.cache.tbm_gtfs_cache.calendar["s"]
       IN  /\ cal.start_date <= args.local.today_date
           /\ args.local.today_date <= cal.end_date
           /\ cal.days[args.local.weekday_num + 1]

\* the stop time of the service is in the result: the service counted as
\* active today
CountedActive == ret.arrivals # <<>>

\* C21: a calendar_dates exception for exactly today's date has precedence
\* over the weekly calendar: with such an exception the service is active iff
\* the exception type is 1, whatever the weekday flag and the period say, and
\* the weekly calendar decides only when no exception is for today's date.
C21_ExceptionPrecedence ==
    ArrivalsReturned =>
      /\ (ExceptionsToday # {} /\ \A e \in ExceptionsToday : e.exception_type = 1)
           => CountedActive
      /\ (ExceptionsToday # {} /\ \A e \in ExceptionsToday : e.exception_type # 1)
           => ~CountedActive
      /\ ExceptionsToday = {} => (CountedActive <=> WeeklyActive)

\* an exception of type 2 for today made the service inactive although the
\* weekly calendar has it running today
C21_Witness ==
    /\ ArrivalsReturned
    /\ \E e \in ExceptionsToday : e.exception_type = 2
    /\ \A e \in ExceptionsToday : e.exception_type = 2
    /\ WeeklyActive
    /\ ~CountedActive

---------------------------------------------------------------------------
\* to_network_data has returned the view of the cache it was called on
ViewBuilt == args.fn = "to_network_data" /\ ret.fn = "to_network_data"

\* the stops of the view by operator: the urban ones come first, then the
\* regional ones, then the national-rail ones
UrbanStops == SubSeq(ret.data.stops, 1, Len(args.cache.tbm_stops_metadata))
RegionalStops ==
    SubSeq(ret.data.stops, Len(args.cache.tbm_stops_metadata) + 1,
           Len(args.cache.tbm_stops_metadata) + Len(args.cache.transgironde_stops))
RailStops ==
    SubSeq(ret.data.stops,
           Len(args.cache.tbm_stops_metadata) + Len(args.cache.transgironde_stops) + 1,
           Len(ret.data.stops))

\* the lines of the view by operator, in the same order
UrbanLines == SubSeq(ret.data.lines, 1, Len(args.cache.tbm_lines_metadata))
RegionalLines ==
    SubSeq(ret.data.lines, Len(args.cache.tbm_lines_metadata) + 1,
           Len(args.cache.tbm_lines_metadata) + Len(args.cache.transgironde_lines))
RailLines ==
    SubSeq(ret.data.lines,
           Len(args.cache.tbm_lines_metadata) + Len(args.cache.transgironde_lines) + 1,
           Len(ret.data.lines))

\* the stop times of a SourceCache, whatever the key they are filed under
AllStopTimes(gtfs) ==
    UNION { Elems(gtfs.stop_times[key]) : key \in DOMAIN gtfs.stop_times }

\* the stop a stop time is at: the stop whose id is the canonical form of the
\* stop id of the stop time (for the regional operator, that id itself)
Verbatim(id) == id
Canonical(id) == extract_sncf_stop_id(id).v

\* the route ids of the trips that have a stop time at the stop
RoutesServing(gtfs, id, StopOf(_)) ==
    { gtfs.trips[st.trip_id].route_id :
        st \in { x \in AllStopTimes(gtfs) :
                   x.trip_id \in DOMAIN gtfs.trips /\ StopOf(x.stop_id) = id } }

\* C22: every stop of the view that comes from the regional or from the
\* national-rail SourceCache has for lines exactly the route ids of the trips
\* that have a stop time at that stop.
C22_StopLinesAreServingRoutes ==
    ViewBuilt =>
      /\ \A i \in DOMAIN RegionalStops :
           RegionalStops[i].lines
             = RoutesServing(args.cache.transgironde_gtfs_cache,
                             RegionalStops[i].stop_id, Verbatim)
      /\ \A i \in DOMAIN RailStops :
           RailStops[i].lines
             = RoutesServing(args.cache.sncf_gtfs_cache, RailStops[i].stop_id, Canonical)

---------------------------------------------------------------------------
\* the alerts of the global list that name the stop, or the line by its
\* short code or by its route id
AlertsOfStop(stop) ==
    LET Names(alert) == stop.stop_id \in alert.stop_ids
    IN  SelectSeq(args.cache.alerts, Names)
AlertsOfLine(line) ==
    LET Names(alert) == line.line_code \in alert.route_ids \/ line.route_id \in alert.route_ids
    IN  SelectSeq(args.cache.alerts, Names)

\* the urban stops and lines of the view carry the alerts that name them
UrbanAlertsAttached ==
    ViewBuilt =>
      /\ \A i \in DOMAIN UrbanStops : UrbanStops[i].alerts = AlertsOfStop(UrbanStops[i])
      /\ \A i \in DOMAIN UrbanLines : UrbanLines[i].alerts = AlertsOfLine(UrbanLines[i])

\* C23: in the view returned by to_network_data every stop of every operator
\* carries exactly the alerts of the global list whose stop_ids hold its id,
\* and every line of every operator exactly the alerts whose route_ids hold
\* its short code or its route id.
C23_AlertsAttachedToAll ==
    ViewBuilt =>
      /\ \A i \in DOMAIN ret.data.stops :
           ret.data.stops[i].alerts = AlertsOfStop(ret.data.stops[i])
      /\ \A i \in DOMAIN ret.data.lines :
           ret.data.lines[i].alerts = AlertsOfLine(ret.data.lines[i])

---------------------------------------------------------------------------
\* C24: to_network_data leaves the cache it is called on as it was, and the
\* view holds all the stops and all the lines of the three operators, two
\* with the same id included: as many stops (lines) as the three operators
\* have together.
C24_ViewIsSumAndCacheUntouched ==
    [][ (args.fn = "to_network_data" /\ ret.fn = "none" /\ ret'.fn = "to_network_data") =>
          /\ args' = args
          /\ cache' = cache
          /\ Len(ret'.data.stops)
               = Len(args.cache.tbm_stops_metadata) + Len(args.cache.transgironde_stops)
                   + Len(args.cache.sncf_stops)
          /\ Len(ret'.data.lines)
               = Len(args.cache.tbm_lines_metadata) + Len(args.cache.transgironde_lines)
                   + Len(args.cache.sncf_lines)
          /\ \A i \in DOMAIN args.cache.transgironde_stops :
               ret'.data.stops[Len(args.cache.tbm_stops_metadata) + i]
                 = args.cache.transgironde_stops[i]
          /\ \A i \in DOMAIN args.cache.sncf_lines :
               ret'.data.lines[Len(args.cache.tbm_lines_metadata)
                                 + Len(args.cache.transgironde_lines) + i]
                 = args.cache.sncf_lines[i] ]_vars

\* a view of a cache in which the urban and the regional operator have a
\* stop of the same id, and the regional and the national-rail operator a
\* line of the same route id
C24_Witness ==
    /\ ViewBuilt
    /\ \E i \in DOMAIN UrbanStops, j \in DOMAIN RegionalStops :
         UrbanStops[i].stop_id = RegionalStops[j].stop_id
    /\ \E i \in DOMAIN RegionalLines, j \in DOMAIN RailLines :
         RegionalLines[i].route_id = RailLines[j].route_id

---------------------------------------------------------------------------
\* the segments of the reference that are followed by a ':' and end with
\* "BP": the reference contains "BP:" when there is one
Markers(id) == { i \in 1..(Len(id) - 1) : EndsWithBP(id[i]) }

\* the stop id the rule of the specification gives: the token between the
\* first "BP:" and the next colon; else the last segment but one; else the
\* reference itself
StopIdByRule(id) ==
    IF Markers(id) # {}
      THEN <<id[(CHOOSE i \in Markers(id) : \A j \in Markers(id) : i <= j) + 1]>>
      ELSE IF Len(id) >= 2 THEN <<id[Len(id) - 1]>> ELSE id

\* extract_line_id and extract_sncf_stop_id give the third segment of the
\* line reference and the code after the '-' of the national-rail stop id
OtherIdsByRule ==
    /\ (ret.fn = "extract_line_id" /\ Len(args.id) >= 3) => ret.v = SomeId(<<args.id[3]>>)
    /\ (ret.fn = "extract_line_id" /\ args.id = <<"A", "B", "42", "C">>)
         => ret.v = SomeId(<<"42">>)
    /\ (ret.fn = "extract_sncf_stop_id"
          /\ args.id = <<"StopPoint", "OCETGV INOUI-87192039">>)
         => ret.v = SomeId(<<"87192039">>)

\* C25: extract_stop_id gives, for every reference, the token between the
\* "BP:" marker and the next colon when the reference contains "BP:", else
\* the second-to-last segment when it contains a colon, else the reference;
\* extract_line_id gives the third segment of a line reference, and
\* extract_sncf_stop_id gives "87192039" for
\* "StopPoint:OCETGV INOUI-87192039".
C25_IdsExtractedByRule ==
    /\ ret.fn = "extract_stop_id" => ret.v = SomeId(StopIdByRule(args.id))
    /\ OtherIdsByRule

---------------------------------------------------------------------------
\* the lines that the view of the cache holds for an operator of
\* get_scheduled_arrivals
ViewLinesOf(c, operator) ==
    LET lines == to_network_data(c, now).lines
        urban == Len(c.tbm_lines_metadata)
        regional == Len(c.transgironde_lines)
    IN  CASE operator = "TBM" -> SubSeq(lines, 1, urban)
          [] operator = "TransGironde" -> SubSeq(lines, urban + 1, urban + regional)
          [] OTHER -> SubSeq(lines, urban + regional + 1, Len(lines))

\* an arrival has the code and the color of the lines of its route
SameAsLine(c, arrival) ==
    \A line \in Elems(ViewLinesOf(c, arrival.operator)) :
      line.route_id = arrival.route_id =>
        line.line_code = arrival.line_code /\ line.color = arrival.line_color

\* the arrivals of the regional operator have the code and the color of the
\* line of their route
RegionalArrivalsAsLines ==
    ret.fn = "get_scheduled_arrivals" =>
      \A arrival \in Elems(ret.arrivals) :
        arrival.operator = "TransGironde" => SameAsLine(args.cache, arrival)

\* C26: for every operator and every route id, the line code and the color
\* that get_scheduled_arrivals gives to an arrival of the route are the
\* line_code and the color of the Line that the view of the same cache holds
\* for the route.
C26_ArrivalsAsLines ==
    ret.fn = "get_scheduled_arrivals" =>
      \A arrival \in Elems(ret.arrivals) : SameAsLine(args.cache, arrival)

---------------------------------------------------------------------------
\* a loader of the static refresh returns in this step
LoaderReturns == loaded.source \in Sources /\ loaded' = NoLoad

\* the cache file of the source holds text that is not older than the max
\* age of the source
FileInDate(s) ==
    /\ disk[cache_path(s)].kind = "text"
    /\ disk[cache_path(s)].text.syntax = "json"
    /\ Elapsed(disk[cache_path(s)].text, now) \div SECONDS_PER_DAY < MaxAgeDays(s)

\* a loader downloads the archive only when load returned nothing, and a write
\* that fails does not make it fail
DownloadOnlyWhenNothingLoaded ==
    [][ LoaderReturns =>
          /\ ret'.downloaded => ~loaded.res.some
          /\ (ret'.downloaded /\ ret'.archive = "ok") => ret'.st = "ok"
          /\ ret'.saved =>
               /\ disk'[cache_path(loaded.source)].kind = "text"
               /\ disk'[cache_path(loaded.source)].text.cached_at = now ]_vars

\* C27: a static refresh fetches the urban discovery feeds every time, but a
\* loader downloads the archive of its operator only when load returned
\* nothing; after a download the new cache is saved with cached_at set to the
\* time of the download, and the loaders of the following static refreshes
\* reuse that file as long as it is in date; a write that fails does not make
\* the loader fail.
C27_ArchiveReusedUntilExpiry ==
    /\ [][ (args = NoCall /\ args' # NoCall) =>
             ret'.source = "discovery" /\ ret'.downloaded ]_vars
    /\ DownloadOnlyWhenNothingLoaded
    /\ [][ \A s \in Sources :
             (loaded = NoLoad /\ loaded'.source = s /\ FileInDate(s)) =>
               loaded'.res.some ]_vars

---------------------------------------------------------------------------
\* C29: once a refresh has panicked while it held the lock, every later
\* acquisition of the lock fails: a read handler that asks for the lock is
\* answered with a failure and never computes a projection, a periodic or
\* manual refresh returns an error without entering smart_refresh, and the
\* cache is never modified again.
C29_PoisonedForEver ==
    [][ /\ (\E p \in Refreshers : result'[p] = "Panicked" /\ result[p] # "Panicked")
             => poisoned'
        /\ poisoned =>
             /\ poisoned'
             /\ cache' = cache
             /\ lock' = NoOne
             /\ \A r \in Readers :
                  /\ pc'[r] # "read"
                  /\ (pc[r] = "lock" /\ pc'[r] # "lock") => pc'[r] = "refused"
             /\ \A p \in Refreshers :
                  /\ ~InRefresh(p)'
                  /\ (pc[p] = "lock" /\ pc'[p] # "lock")
                       => (result'[p] = "Err" /\ pc'[p] = "idle")
      ]_vars

\* after the panic of the periodic refresh, the manual refresh has returned
\* an error and a read handler is refused the lock
C29_Witness ==
    /\ poisoned
    /\ result["timer"] = "Panicked"
    /\ result["manual"] = "Err"
    /\ \E r \in Readers : pc[r] = "refused"

---------------------------------------------------------------------------
\* C28: every refresh that has started ends, by completing, failing or
\* panicking, and then no longer holds the lock; and under fair scheduling
\* every read request and every refresh trigger that waits for the lock
\* leaves the wait.
C28_RefreshEndsWaitersServed ==
    /\ \A p \in Refreshers : InRefresh(p) ~> (~InRefresh(p) /\ lock # p)
    /\ \A x \in Procs : (pc[x] = "lock") ~> (pc[x] # "lock")
    /\ \A r \in Readers : (pc[r] = "lock") ~> (pc[r] = "idle")

\* the periodic refresh is loading the static data while the manual refresh
\* and both read requests wait for the lock
C28_Witness ==
    /\ pc["timer"] = "sta_fetch"
    /\ pc["manual"] = "lock"
    /\ \A r \in Readers : pc[r] = "lock"

---------------------------------------------------------------------------
\* C30: after any sequence of dynamic refreshes, whatever fetches succeeded
\* or failed, the alert list and the trip-update list of the cache hold the
\* national-rail entries of at most one refresh: a national-rail entry is in
\* the cache no more often than in the feed it was fetched from.  (Every
\* national-rail feed of the model returns one entry per fetch.)
C30_RailEntriesOfOneRefresh ==
    /\ Len(FromFeed(cache.alerts, "sncf_alerts")) <= 1
    /\ Len(FromFeed(cache.trip_updates, "sncf_trips")) <= 1
    /\ \A e \in Elems(FromFeed(cache.alerts, "sncf_alerts")) : Count(cache.alerts, e) <= 1

===========================================================================
